---- MODULE Spec2Model ----
(***************************************************************************)
(* aigrab / grabr: the interactive selection state machine                 *)
(* (SelectionOverlay + GrabrController + mapWithConcurrencyLimit) and the  *)
(* client factory (createGrabrClient), modelled from src/src/grabr.ts.     *)
(*                                                                         *)
(* JavaScript is single-threaded: one action below is one task (a DOM      *)
(* event handler, an API call) or one settling promise together with the   *)
(* microtask continuations it triggers, which run before any other task.   *)
(***************************************************************************)
EXTENDS Integers, Sequences, FiniteSets, TLC

(* ------------------------------------------------------------------ *)
(* The page                                                            *)
(* ------------------------------------------------------------------ *)

\* Elements of the inspected page. 1 is a container, 2 and 3 its children.
Elements == {1, 2, 3}
\* hoveredElement = null
NoElement == 0
\* An event target inside the overlay's own root (HUD, toast, boxes).
OverlayNode == 8
\* An event target that is not an Element (document, window, a text node).
NonElementTarget == 9

\* el.parentElement, 0 when there is none
parentElement(e) == IF e \in {2, 3} THEN 1 ELSE NoElement

\* e and everything below it
Subtree(e) == {d \in Elements : d = e \/ parentElement(d) = e}

\* Elements the page may remove from the document while the tool runs.
Detachable == Elements

(* ------------------------------------------------------------------ *)
(* Bounds                                                              *)
(* ------------------------------------------------------------------ *)

\* Finalizations running at the same time: a further one starts only while
\* fewer than this many are running.
MaxRunning == 2

(* ------------------------------------------------------------------ *)
(* Values                                                              *)
(* ------------------------------------------------------------------ *)

\* A userInstruction argument: undefined/null, or a string (its characters).
NullInstruction == [isString |-> FALSE, chars |-> <<>>]
Str(cs) == [isString |-> TRUE, chars |-> cs]
InstructionInputs ==
  {NullInstruction, Str(<<>>), Str(<<" ">>), Str(<<"a">>), Str(<<" ", "a">>)}

\* String.prototype.trim on a sequence of characters
RECURSIVE TrimLeft(_)
TrimLeft(cs) == IF cs # <<>> /\ Head(cs) = " " THEN TrimLeft(Tail(cs)) ELSE cs
RECURSIVE TrimRight(_)
TrimRight(cs) ==
  IF cs # <<>> /\ cs[Len(cs)] = " " THEN TrimRight(SubSeq(cs, 1, Len(cs) - 1)) ELSE cs
Trim(cs) == TrimRight(TrimLeft(cs))

\* Delivery providers (objects). Both carry the id "clipboard": "clipboard0"
\* is the ClipboardAgentProvider the client is built with (no hooks),
\* "custom" is a provider an integrator registers (with onSuccess/onError).
Providers == {"clipboard0", "custom"}
NoProvider == "none"
ProviderId(p) == "clipboard"
ProviderIds == {"clipboard", "unregistered"}
HasHooks(p) == p = "custom"

\* Errors: what sendContext rejects with, what a hook throws.
SendError == "send-failed"
HookError == "hook-threw"

\* GrabrSession (id, createdAt and url are not modelled)
\* summary: "Session with <captured> element(s) captured[; <failed> failed]."
Summary(captured, failed) ==
  [captured |-> captured, mentionsFailed |-> failed > 0, failed |-> failed]
NoSession ==
  [exists |-> FALSE, userInstruction |-> NullInstruction, summary |-> Summary(0, 0),
   elements |-> <<>>]

\* SelectionFinalizeProgress
Progress(phase, completed, total, message) ==
  [phase |-> phase, completed |-> completed, total |-> total, message |-> message]

\* contextsOrNull entries: not yet written, null (capture failed), or the
\* ElementContextV2 of element e, written e.
Unset == -1
NullContext == 0
\* a worker that has left its loop
WorkerDone == -1

\* The concurrency limit finalizeSelection passes to mapWithConcurrencyLimit.
CaptureConcurrency == 2

Min(a, b) == IF a <= b THEN a ELSE b

\* One GrabrController.finalizeSelection call: its locals (items is the
\* local "connected", results is contextsOrNull, limit is the concurrency
\* limit of its mapWithConcurrencyLimit call), the progress events it
\* passed to onProgress (log), the provider calls it made, and two records of
\* what its environment did: captured[i] is how getElementContext settled for
\* items[i] ("pending", "ok", "failed"), sendOutcome is how sendContext
\* settled ("pending", "resolved", "rejected").
EmptyFin ==
  [pc |-> "idle", items |-> <<>>, total |-> 0, limit |-> 0, results |-> <<>>,
   nextIndex |-> 0,
   workers |-> <<>>, completed |-> 0, failed |-> 0, log |-> <<>>, session |-> NoSession,
   sentTo |-> NoProvider, onSuccessCalls |-> <<>>, onErrorCalls |-> <<>>,
   captured |-> <<>>, sendOutcome |-> "pending"]

\* Positions in the list of running finalizations.
FinSlots == 1..MaxRunning

\* What the last step ended: nothing (kind "none"); a selection, by
\* cancelSelection on Escape or the global shortcut ("cancelled", with the
\* selected elements it dropped); a finalize request the overlay dropped
\* because none of the chosen elements was attached ("cancelled-empty"); a
\* call of the controller's finalizeSelection ("ended", with the call's
\* final record).
\* No exported pure function is being called.
NoCall == [fn |-> "none", args |-> <<>>]

NoReport == [kind |-> "none", chosen |-> <<>>, fin |-> EmptyFin]

(* ------------------------------------------------------------------ *)
(* Runtime config                                                      *)
(* ------------------------------------------------------------------ *)

\* JavaScript values a config field can hold. A finite number is kept in
\* halves (3 is 6 halves, 1.5 is 3 halves), so that non-integers exist.
JsValue(t, halves, str) == [t |-> t, halves |-> halves, str |-> str]
Undefined == JsValue("undefined", 0, "")
JsNull == JsValue("null", 0, "")
NaN == JsValue("NaN", 0, "")
PosInfinity == JsValue("Infinity", 0, "")
NegInfinity == JsValue("-Infinity", 0, "")
JsString(str) == JsValue("string", 0, str)
JsHalves(h) == JsValue("number", h, "")
JsNumber(n) == JsHalves(2 * n)

\* The range validateRuntimeConfigOrThrow accepts for maxReactStackFrames.
MinReactStackFrames == 1
MaxReactStackFrames == 64
\* defaultRuntimeConfig.maxReactStackFrames
DefaultMaxReactStackFrames == 8

\* How far beyond the accepted range the probed maxReactStackFrames go.
FramesProbeMargin == 2

\* Partial<GrabrRuntimeConfig> | undefined (heuristics are not modelled)
PartialConfig(mode, frames) ==
  [given |-> TRUE, reactInspectorMode |-> mode, maxReactStackFrames |-> frames]
\* createGrabrClient() called without an argument
DefaultPartial ==
  [given |-> FALSE, reactInspectorMode |-> Undefined, maxReactStackFrames |-> Undefined]

ModeInputs ==
  {Undefined, JsNull, JsString("best-effort"), JsString("required"), JsString("off"),
   JsString("strict"), JsString(""), JsNumber(1)}
FramesInputs ==
  {Undefined, JsNull, NaN, PosInfinity, NegInfinity, JsString("8")}
    \cup {JsHalves(h) : h \in (2 * (MinReactStackFrames - FramesProbeMargin))
                               ..(2 * (MaxReactStackFrames + FramesProbeMargin))}
ConfigInputs ==
  {DefaultPartial} \cup {PartialConfig(m, f) : m \in ModeInputs, f \in FramesInputs}

defaultRuntimeConfig ==
  [reactInspectorMode |-> JsString("best-effort"),
   maxReactStackFrames |-> JsNumber(DefaultMaxReactStackFrames)]

\* a ?? b
Nullish(a, b) == IF a = Undefined \/ a = JsNull THEN b ELSE a

mergeRuntimeConfig(partial) ==
  IF ~partial.given THEN defaultRuntimeConfig
  ELSE [reactInspectorMode |->
          Nullish(partial.reactInspectorMode, defaultRuntimeConfig.reactInspectorMode),
        maxReactStackFrames |->
          Nullish(partial.maxReactStackFrames, defaultRuntimeConfig.maxReactStackFrames)]

TypeofNumber(value) == value.t \in {"number", "NaN", "Infinity", "-Infinity"}
NumberIsFinite(value) == value.t = "number"
NumberIsInteger(value) == value.t = "number" /\ value.halves % 2 = 0

\* Variant of isFiniteIntegerInRange: without the Number.isInteger test.
isFiniteInRange(value, min, max) ==
  /\ TypeofNumber(value)
  /\ NumberIsFinite(value)
  /\ value.halves >= 2 * min
  /\ value.halves <= 2 * max

isFiniteIntegerInRange(value, min, max) ==
  /\ TypeofNumber(value)
  /\ NumberIsFinite(value)
  /\ NumberIsInteger(value)
  /\ value.halves >= 2 * min
  /\ value.halves <= 2 * max

\* "ok" when it returns, else which of its two errors it throws
validateRuntimeConfigOrThrow(config) ==
  IF /\ config.reactInspectorMode # JsString("best-effort")
     /\ config.reactInspectorMode # JsString("required")
     /\ config.reactInspectorMode # JsString("off")
  THEN "invalid-reactInspectorMode"
  ELSE IF ~isFiniteIntegerInRange(config.maxReactStackFrames, MinReactStackFrames,
                                  MaxReactStackFrames)
  THEN "invalid-maxReactStackFrames"
  ELSE "ok"

VARIABLES
  connected,         \* elements attached to the document
  selecting,         \* SelectionOverlay.selecting
  sending,           \* SelectionOverlay.sending
  hoveredElement,    \* SelectionOverlay.hoveredElement
  selectedElements,  \* SelectionOverlay.selectedElements
  listening,         \* the selection listeners are attached
  overlay,           \* GrabrController.overlay is set (not disposed)
  currentSession,    \* GrabrController.currentSession
  currentInstruction,\* GrabrController.currentInstruction
  activeProvider,    \* GrabrController.activeProvider
  providerRegistry,  \* GrabrController.providerRegistry
  fins,              \* the running finalizeSelection calls, oldest first
  report,            \* the finalization that ended in the last step
  client,            \* createGrabrClient: "none" (not called), "created", or what it threw
  partialConfig,     \* the argument of createGrabrClient
  hasBrowser,        \* window and document exist
  domTouched,        \* the client factory has created or changed DOM nodes or listeners
  callInput,         \* the exported pure function under study and its arguments
  callOutput         \* the results of the calls of it made so far, oldest first

vars ==
  <<connected, selecting, sending, hoveredElement, selectedElements, listening, overlay,
    currentSession, currentInstruction, activeProvider, providerRegistry, fins, report,
    client, partialConfig, hasBrowser, domTouched, callInput, callOutput>>

overlayVars == <<selecting, sending, hoveredElement, selectedElements, listening>>
providerVars == <<activeProvider, providerRegistry>>
factoryVars == <<client, partialConfig, hasBrowser, domTouched>>
callVars == <<callInput, callOutput>>

(* ------------------------------------------------------------------ *)
(* Helpers of the controller and the overlay                           *)
(* ------------------------------------------------------------------ *)

RECURSIVE DedupeFrom(_, _)
DedupeFrom(elements, out) ==
  IF elements = <<>> THEN out
  ELSE IF \E i \in 1..Len(out) : out[i] = Head(elements)
       THEN DedupeFrom(Tail(elements), out)
       ELSE DedupeFrom(Tail(elements), Append(out, Head(elements)))

dedupeElementsPreserveOrder(elements) == DedupeFrom(elements, <<>>)

isElementConnectedToDocument(el) == el \in connected

FilterConnected(elements) == SelectSeq(elements, isElementConnectedToDocument)

\* this.root.contains(target)
RootContains(target) == target = OverlayNode

\* target instanceof Element
IsElement(target) == target \in Elements \/ target = OverlayNode

\* Array.prototype.indexOf, 0-based, -1 when absent
IndexOf(seq, el) ==
  IF \E i \in 1..Len(seq) : seq[i] = el
  THEN (CHOOSE i \in 1..Len(seq) : seq[i] = el /\ \A j \in 1..(i - 1) : seq[j] # el) - 1
  ELSE 0 - 1

\* Array.prototype.splice(index, 1), index 0-based
RemoveAt(seq, index) == SubSeq(seq, 1, index) \o SubSeq(seq, index + 2, Len(seq))

(* ------------------------------------------------------------------ *)
(* SelectionOverlay methods (each constrains overlayVars)              *)
(* ------------------------------------------------------------------ *)

\* Variant of beginSelection: the selected elements of the last selection
\* are kept.
beginSelectionKeepsSelected ==
  IF sending
  THEN UNCHANGED overlayVars
  ELSE /\ hoveredElement' = NoElement
       /\ selecting' = TRUE
       /\ listening' = TRUE
       /\ UNCHANGED <<sending, selectedElements>>

beginSelection ==
  IF sending
  THEN UNCHANGED overlayVars
  ELSE /\ selectedElements' = <<>>
       /\ hoveredElement' = NoElement
       /\ selecting' = TRUE
       /\ listening' = TRUE
       /\ UNCHANGED sending

\* Variant of cancelSelection: the selected elements are kept.
cancelSelectionKeepsSelected ==
  /\ selecting' = FALSE
  /\ sending' = FALSE
  /\ hoveredElement' = NoElement
  /\ listening' = FALSE
  /\ UNCHANGED selectedElements

cancelSelection ==
  /\ selecting' = FALSE
  /\ sending' = FALSE
  /\ hoveredElement' = NoElement
  /\ selectedElements' = <<>>
  /\ listening' = FALSE

clearSelection ==
  /\ selectedElements' = <<>>
  /\ UNCHANGED <<selecting, sending, hoveredElement, listening>>

undoSelection ==
  /\ selectedElements' =
       IF Len(selectedElements) = 0 THEN selectedElements
       ELSE SubSeq(selectedElements, 1, Len(selectedElements) - 1)
  /\ UNCHANGED <<selecting, sending, hoveredElement, listening>>

selectHoveredParent ==
  /\ hoveredElement' =
       IF hoveredElement = NoElement THEN hoveredElement
       ELSE IF parentElement(hoveredElement) = NoElement THEN hoveredElement
       ELSE IF RootContains(parentElement(hoveredElement)) THEN hoveredElement
       ELSE parentElement(hoveredElement)
  /\ UNCHANGED <<selecting, sending, selectedElements, listening>>

toggleSelection(el, multi) ==
  LET index == IndexOf(selectedElements, el)
      toggled == IF ~multi THEN <<el>>
                 ELSE IF index >= 0 THEN RemoveAt(selectedElements, index)
                 ELSE Append(selectedElements, el)
  IN /\ selectedElements' = FilterConnected(toggled)
     /\ UNCHANGED <<selecting, sending, hoveredElement, listening>>

\* The guard every selection listener starts with.
HandlerIgnores == ~selecting \/ sending

onMouseMove(target) ==
  IF HandlerIgnores \/ ~IsElement(target) \/ RootContains(target) \/ target = hoveredElement
  THEN UNCHANGED overlayVars
  ELSE /\ hoveredElement' = target
       /\ UNCHANGED <<selecting, sending, selectedElements, listening>>

\* Variant of onClick: without the guard on selecting and sending.
onClickUnguarded(target, button, multi) ==
  IF button # 0 \/ ~IsElement(target) \/ RootContains(target)
  THEN UNCHANGED overlayVars
  ELSE toggleSelection(target, multi)

onClick(target, button, multi) ==
  IF HandlerIgnores \/ button # 0 \/ ~IsElement(target) \/ RootContains(target)
  THEN UNCHANGED overlayVars
  ELSE toggleSelection(target, multi)

\* onKeyDown for the keys that neither cancel nor finalize
EditKeys == {"Backspace", "ArrowUp", "x", "?", "g"}

onKeyDownEdit(key) ==
  IF HandlerIgnores THEN UNCHANGED overlayVars
  ELSE IF key = "Backspace" THEN undoSelection
  ELSE IF key = "ArrowUp" THEN selectHoveredParent
  ELSE IF key = "x" THEN clearSelection
  ELSE UNCHANGED overlayVars

SelectionOverlayDispose ==
  /\ listening' = FALSE
  /\ UNCHANGED <<selecting, sending, hoveredElement, selectedElements>>

(* ------------------------------------------------------------------ *)
(* mapWithConcurrencyLimit                                             *)
(* ------------------------------------------------------------------ *)

\* Variant of mapWithConcurrencyLimit: every worker starts on the first index.
mapWithConcurrencyLimitSharedStart(items, limit) ==
  LET workerCount == Min(limit, Len(items))
  IN [workers |-> [w \in 1..workerCount |-> 0], nextIndex |-> workerCount]

\* The call up to its first suspension: Math.min(limit, items.length) workers
\* are started one after the other, and each claims the next index and calls
\* the mapper on it before it suspends.
mapWithConcurrencyLimit(items, limit) ==
  LET workerCount == Min(limit, Len(items))
  IN [workers |-> [w \in 1..workerCount |-> w - 1], nextIndex |-> workerCount]

\* Variant of runWorker: results are pushed in completion order.
runWorkerPushes(fin, w, result) ==
  LET slot == 1 + Cardinality({i \in 1..Len(fin.results) : fin.results[i] # Unset})
      stored == [fin EXCEPT !.results[slot] = result]
  IN IF stored.nextIndex < Len(stored.items)
     THEN [stored EXCEPT !.workers[w] = stored.nextIndex,
                         !.nextIndex = stored.nextIndex + 1]
     ELSE [stored EXCEPT !.workers[w] = WorkerDone]

\* runWorker resumed with its mapper's result: the result is stored at the
\* index the worker holds, then the loop claims the next index or ends.
runWorker(fin, w, result) ==
  LET stored == [fin EXCEPT !.results[fin.workers[w] + 1] = result]
  IN IF stored.nextIndex < Len(stored.items)
     THEN [stored EXCEPT !.workers[w] = stored.nextIndex,
                         !.nextIndex = stored.nextIndex + 1]
     ELSE [stored EXCEPT !.workers[w] = WorkerDone]

\* runWorker resumed with its mapper's rejection: the await throws, the
\* worker's promise rejects and the worker claims nothing more.
runWorkerRejected(fin, w) == [fin EXCEPT !.workers[w] = WorkerDone]

\* Promise.all(workers) has resolved
AllWorkersDone(fin) == \A w \in 1..Len(fin.workers) : fin.workers[w] = WorkerDone

(* ------------------------------------------------------------------ *)
(* GrabrController                                                     *)
(* ------------------------------------------------------------------ *)

\* finalizeSelection up to its first await.
ControllerFinalizeStart(elements) ==
  LET conn == FilterConnected(dedupeElementsPreserveOrder(elements))
      total == Len(conn)
      pool == mapWithConcurrencyLimit(conn, CaptureConcurrency)
  IN IF total = 0
     THEN [EmptyFin EXCEPT
             !.pc = "returned",
             !.log = <<Progress("error", 0, 0, "No valid elements to capture.")>>]
     ELSE [EmptyFin EXCEPT
             !.pc = "capturing", !.items = conn, !.total = total,
             !.limit = CaptureConcurrency,
             !.results = [i \in 1..total |-> Unset],
             !.workers = pool.workers, !.nextIndex = pool.nextIndex,
             !.log = <<Progress("building-context", 0, total, "")>>]

\* Variant of CaptureMapper: the completion is counted in the try block, so
\* only for a capture that succeeded.
CaptureMapperCountsSuccesses(fin, ok) ==
  LET failed == IF ok THEN fin.failed ELSE fin.failed + 1
      completed == IF ok THEN fin.completed + 1 ELSE fin.completed
  IN [fin EXCEPT !.failed = failed, !.completed = completed,
                 !.log = Append(@, Progress("building-context", completed, fin.total, ""))]

\* The mapper finalizeSelection passes: getElementContext(el) has resolved
\* (ok) or rejected; catch counts the failure, finally counts the completion
\* and reports it.
CaptureMapper(fin, ok) ==
  LET failed == IF ok THEN fin.failed ELSE fin.failed + 1
      completed == fin.completed + 1
  IN [fin EXCEPT !.failed = failed, !.completed = completed,
                 !.log = Append(@, Progress("building-context", completed, fin.total, ""))]

CaptureResult(el, ok) == IF ok THEN el ELSE NullContext

\* Variant of ControllerAfterCaptures: one failed capture aborts the batch.
ControllerAfterCapturesAbortsOnFailure(fin) ==
  LET contexts == SelectSeq(fin.results, LAMBDA c : c # NullContext)
  IN IF Len(contexts) = 0 \/ fin.failed > 0
     THEN [fin EXCEPT
             !.pc = "returned",
             !.log = Append(@, Progress("error", fin.completed, fin.total,
                                        "Failed to capture context for all selected elements."))]
     ELSE [fin EXCEPT
             !.pc = "sending",
             !.session = [exists |-> TRUE, userInstruction |-> currentInstruction,
                          summary |-> Summary(Len(contexts), fin.failed),
                          elements |-> contexts],
             !.log = Append(@, Progress("sending", fin.total, fin.total, "")),
             !.sentTo = activeProvider]

\* Variant of ControllerAfterCaptures: the session is built and sent even
\* when no capture succeeded.
ControllerAfterCapturesAlwaysSends(fin) ==
  LET contexts == SelectSeq(fin.results, LAMBDA c : c # NullContext)
  IN [fin EXCEPT
        !.pc = "sending",
        !.session = [exists |-> TRUE, userInstruction |-> currentInstruction,
                     summary |-> Summary(Len(contexts), fin.failed),
                     elements |-> contexts],
        !.log = Append(@, Progress("sending", fin.total, fin.total, "")),
        !.sentTo = activeProvider]

\* finalizeSelection resumed after the pool: no context at all is the
\* terminal error; otherwise the session is built, stored and handed to the
\* active provider.
ControllerAfterCaptures(fin) ==
  LET contexts == SelectSeq(fin.results, LAMBDA c : c # NullContext)
  IN IF Len(contexts) = 0
     THEN [fin EXCEPT
             !.pc = "returned",
             !.log = Append(@, Progress("error", fin.completed, fin.total,
                                        "Failed to capture context for all selected elements."))]
     ELSE [fin EXCEPT
             !.pc = "sending",
             !.session = [exists |-> TRUE, userInstruction |-> currentInstruction,
                          summary |-> Summary(Len(contexts), fin.failed),
                          elements |-> contexts],
             !.log = Append(@, Progress("sending", fin.total, fin.total, "")),
             !.sentTo = activeProvider]

\* finalizeSelection resumed after sendContext settled: the try block's rest,
\* and the catch block. The hooks are those of the provider that is active
\* now. pc "returned": the promise resolved; "threw": it rejected.
ControllerAfterSend(fin, resolved, onSuccessThrows, onErrorThrows) ==
  LET p == activeProvider
      afterSuccess == IF resolved /\ HasHooks(p)
                      THEN [fin EXCEPT !.onSuccessCalls = Append(@, p)]
                      ELSE fin
      caught == ~resolved \/ (HasHooks(p) /\ onSuccessThrows)
      err == IF resolved THEN HookError ELSE SendError
      afterError == IF HasHooks(p)
                    THEN [afterSuccess EXCEPT !.onErrorCalls = Append(@, <<p, err>>)]
                    ELSE afterSuccess
  IN IF ~caught
     THEN [afterSuccess EXCEPT
             !.pc = "returned",
             !.log = Append(@, Progress("done", fin.total, fin.total, ""))]
     ELSE IF HasHooks(p) /\ onErrorThrows
     THEN [afterError EXCEPT !.pc = "threw"]
     ELSE [afterError EXCEPT
             !.pc = "returned",
             !.log = Append(@, Progress("error", fin.total, fin.total, err))]

\* startSelectionSession's normalisation of its argument
NormalizeInstruction(userInstruction) ==
  LET trimmed == IF userInstruction.isString THEN Str(Trim(userInstruction.chars))
                 ELSE NullInstruction
  IN IF trimmed.isString /\ Len(trimmed.chars) > 0 THEN trimmed ELSE NullInstruction

(* ------------------------------------------------------------------ *)
(* Running finalizations                                               *)
(* ------------------------------------------------------------------ *)

\* the list without its f-th entry
Without(seq, f) == SubSeq(seq, 1, f - 1) \o SubSeq(seq, f + 1, Len(seq))

\* Variant of OverlayFinally: the sending flag is not reset.
OverlayFinallyKeepsSending ==
  /\ selecting' = FALSE
  /\ UNCHANGED <<sending, hoveredElement, selectedElements, listening>>

\* SelectionOverlay.finalizeSelection's finally block
OverlayFinally ==
  /\ selecting' = FALSE
  /\ sending' = FALSE
  /\ UNCHANGED <<hoveredElement, selectedElements, listening>>

\* The controller's promise has settled: the overlay's finally block runs
\* and the call is over.
EndFinalization(f, fin) ==
  /\ OverlayFinally
  /\ fins' = Without(fins, f)
  /\ report' = [kind |-> "ended", chosen |-> fin.items, fin |-> fin]

(* ------------------------------------------------------------------ *)
(* Actions: API calls                                                  *)
(* ------------------------------------------------------------------ *)

StartSelectionSession(userInstruction) ==
  /\ currentInstruction' = NormalizeInstruction(userInstruction)
  /\ IF overlay THEN beginSelection ELSE UNCHANGED overlayVars
  /\ report' = NoReport
  /\ UNCHANGED <<connected, overlay, currentSession, providerVars, fins, factoryVars, callVars>>

RegisterAgentProvider(provider) ==
  /\ providerRegistry' = [providerRegistry EXCEPT ![ProviderId(provider)] = provider]
  /\ report' = NoReport
  /\ UNCHANGED <<connected, overlayVars, overlay, currentSession, currentInstruction,
                 activeProvider, fins, factoryVars, callVars>>

SetActiveAgentProvider(id) ==
  /\ activeProvider' =
       IF providerRegistry[id] # NoProvider THEN providerRegistry[id] ELSE activeProvider
  /\ report' = NoReport
  /\ UNCHANGED <<connected, overlayVars, overlay, currentSession, currentInstruction,
                 providerRegistry, fins, factoryVars, callVars>>

\* Variant of Dispose: the stored session is dropped with the overlay.
DisposeClearsSession ==
  /\ IF overlay
     THEN SelectionOverlayDispose /\ overlay' = FALSE
     ELSE UNCHANGED <<overlayVars, overlay>>
  /\ currentSession' = NoSession
  /\ report' = NoReport
  /\ UNCHANGED <<connected, currentInstruction, providerVars, fins, factoryVars, callVars>>

Dispose ==
  /\ IF overlay
     THEN SelectionOverlayDispose /\ overlay' = FALSE
     ELSE UNCHANGED <<overlayVars, overlay>>
  /\ report' = NoReport
  /\ UNCHANGED <<connected, currentSession, currentInstruction, providerVars, fins,
                 factoryVars, callVars>>

(* ------------------------------------------------------------------ *)
(* Actions: DOM events                                                 *)
(* ------------------------------------------------------------------ *)

\* What a mouse event can hit: an attached element, the overlay, no element.
MouseTargets == connected \cup {OverlayNode, NonElementTarget}

ControllerUnchanged ==
  UNCHANGED <<connected, overlay, currentSession, currentInstruction, providerVars, fins,
              factoryVars, callVars>>

\* keydown Alt+Shift+G; this listener is attached by the overlay's
\* constructor and never removed.
GlobalToggle ==
  /\ IF selecting \/ sending
     THEN /\ cancelSelection
          /\ report' = [kind |-> "cancelled", chosen |-> selectedElements, fin |-> EmptyFin]
     ELSE /\ beginSelection
          /\ report' = NoReport
  /\ ControllerUnchanged

MouseMove(target) ==
  /\ listening
  /\ onMouseMove(target)
  /\ report' = NoReport
  /\ ControllerUnchanged

Click(target, button, multi) ==
  /\ listening
  /\ onClick(target, button, multi)
  /\ report' = NoReport
  /\ ControllerUnchanged

KeyEdit(key) ==
  /\ listening
  /\ onKeyDownEdit(key)
  /\ report' = NoReport
  /\ ControllerUnchanged

KeyEscape ==
  /\ listening
  /\ IF HandlerIgnores
     THEN /\ UNCHANGED overlayVars
          /\ report' = NoReport
     ELSE /\ cancelSelection
          /\ report' = [kind |-> "cancelled", chosen |-> selectedElements, fin |-> EmptyFin]
  /\ ControllerUnchanged

\* keydown Enter: SelectionOverlay.finalizeSelection and, inside it,
\* GrabrController.finalizeSelection, both up to the first await.
KeyEnter ==
  /\ listening
  /\ UNCHANGED <<connected, overlay, currentSession, currentInstruction, providerVars,
                 factoryVars, callVars>>
  /\ IF HandlerIgnores
     THEN UNCHANGED <<overlayVars, fins>> /\ report' = NoReport
     ELSE LET chosen == IF Len(selectedElements) = 0 /\ hoveredElement # NoElement
                        THEN <<hoveredElement>> ELSE selectedElements
              conn == FilterConnected(dedupeElementsPreserveOrder(chosen))
              fin == [ControllerFinalizeStart(conn) EXCEPT
                        !.captured = [i \in 1..Len(conn) |-> "pending"]]
          IN IF Len(conn) = 0
             THEN /\ cancelSelection
                  /\ report' = [kind |-> "cancelled-empty", chosen |-> chosen,
                                 fin |-> EmptyFin]
                  /\ UNCHANGED fins
             ELSE /\ Len(fins) < MaxRunning
                  /\ IF fin.pc = "returned"
                     THEN /\ selecting' = FALSE
                          /\ sending' = FALSE
                          /\ listening' = FALSE
                          /\ selectedElements' = chosen
                          /\ UNCHANGED <<hoveredElement, fins>>
                          /\ report' = [kind |-> "ended", chosen |-> fin.items, fin |-> fin]
                     ELSE /\ sending' = TRUE
                          /\ listening' = FALSE
                          /\ selectedElements' = chosen
                          /\ UNCHANGED <<selecting, hoveredElement>>
                          /\ fins' = Append(fins, fin)
                          /\ report' = NoReport

\* The page removes an element (and what is below it) from the document.
Detach(el) ==
  /\ el \in connected
  /\ connected' = connected \ Subtree(el)
  /\ report' = NoReport
  /\ UNCHANGED <<overlayVars, overlay, currentSession, currentInstruction, providerVars,
                 fins, factoryVars, callVars>>

(* ------------------------------------------------------------------ *)
(* Actions: settling promises                                          *)
(* ------------------------------------------------------------------ *)

\* inspector.getElementContext settles for the element worker w of
\* finalization f holds: the mapper's catch/finally, the worker's next loop
\* turn and, when this was the last worker, the controller's continuation.
CaptureSettles(f, w, ok) ==
  /\ f <= Len(fins)
  /\ fins[f].pc = "capturing"
  /\ w \in 1..Len(fins[f].workers)
  /\ fins[f].workers[w] # WorkerDone
  /\ LET index == fins[f].workers[w] + 1
         el == fins[f].items[index]
         settled == [fins[f] EXCEPT !.captured[index] = IF ok THEN "ok" ELSE "failed"]
         mapped == CaptureMapper(settled, ok)
         resumed == runWorker(mapped, w, CaptureResult(el, ok))
         after == ControllerAfterCaptures(resumed)
     IN IF ~AllWorkersDone(resumed)
        THEN /\ fins' = [fins EXCEPT ![f] = resumed]
             /\ report' = NoReport
             /\ UNCHANGED <<overlayVars, currentSession>>
        ELSE IF after.pc = "sending"
        THEN /\ fins' = [fins EXCEPT ![f] = after]
             /\ currentSession' = after.session
             /\ report' = NoReport
             /\ UNCHANGED overlayVars
        ELSE /\ EndFinalization(f, after)
             /\ UNCHANGED currentSession
  /\ UNCHANGED <<connected, overlay, currentInstruction, providerVars, factoryVars, callVars>>

\* The provider's sendContext promise settles for finalization f.
SendSettles(f, resolved, onSuccessThrows, onErrorThrows) ==
  /\ f <= Len(fins)
  /\ fins[f].pc = "sending"
  /\ LET settled == [fins[f] EXCEPT
                        !.sendOutcome = IF resolved THEN "resolved" ELSE "rejected"]
     IN EndFinalization(f, ControllerAfterSend(settled, resolved, onSuccessThrows,
                                               onErrorThrows))
  /\ UNCHANGED <<connected, overlay, currentSession, currentInstruction, providerVars,
                 factoryVars, callVars>>

(* ------------------------------------------------------------------ *)
(* The selection state machine                                         *)
(* ------------------------------------------------------------------ *)

\* The state right after createGrabrClient() returned, on a page whose
\* attached elements are those of "page".
InitPage(page) ==
  /\ connected = page
  /\ selecting = FALSE
  /\ sending = FALSE
  /\ hoveredElement = NoElement
  /\ selectedElements = <<>>
  /\ listening = FALSE
  /\ overlay = TRUE
  /\ currentSession = NoSession
  /\ currentInstruction = NullInstruction
  /\ activeProvider = "clipboard0"
  /\ providerRegistry = [id \in ProviderIds |->
                           IF id = "clipboard" THEN "clipboard0" ELSE NoProvider]
  /\ fins = <<>>
  /\ report = NoReport
  /\ client = "created"
  /\ partialConfig = DefaultPartial
  /\ hasBrowser = TRUE
  /\ domTouched = TRUE
  /\ callInput = NoCall
  /\ callOutput = <<>>

\* The client on a page with a single element, driven through
\* startSelectionSession, dispose, the page's events and the global shortcut,
\* with the provider it was built with (which has no hooks to throw).
Init == InitPage({1})

Next ==
  \/ \E i \in InstructionInputs : StartSelectionSession(i)
  \/ Dispose
  \/ GlobalToggle
  \/ \E t \in MouseTargets : MouseMove(t)
  \/ \E t \in MouseTargets, b \in {0, 2}, m \in BOOLEAN : Click(t, b, m)
  \/ \E k \in EditKeys : KeyEdit(k)
  \/ KeyEscape
  \/ KeyEnter
  \/ \E f \in FinSlots, w \in 1..CaptureConcurrency, ok \in BOOLEAN : CaptureSettles(f, w, ok)
  \/ \E f \in FinSlots, r \in BOOLEAN : SendSettles(f, r, FALSE, FALSE)

Spec == Init /\ [][Next]_vars

\* Providers: the single-element page again, with providers registered and
\* activated at any moment, hooks that may throw, and selections started by
\* startSelectionSession or the global shortcut and worked with mouse and
\* keyboard, until dispose.
NextProviders ==
  \/ StartSelectionSession(NullInstruction)
  \/ Dispose
  \/ \E p \in Providers : RegisterAgentProvider(p)
  \/ \E id \in ProviderIds : SetActiveAgentProvider(id)
  \/ GlobalToggle
  \/ \E t \in MouseTargets : MouseMove(t)
  \/ \E t \in MouseTargets, b \in {0, 2}, m \in BOOLEAN : Click(t, b, m)
  \/ \E k \in EditKeys : KeyEdit(k)
  \/ KeyEscape
  \/ KeyEnter
  \/ \E f \in FinSlots, w \in 1..CaptureConcurrency, ok \in BOOLEAN : CaptureSettles(f, w, ok)
  \/ \E f \in FinSlots, r \in BOOLEAN, s \in BOOLEAN, e \in BOOLEAN : SendSettles(f, r, s, e)

SpecProviders == Init /\ [][NextProviders]_vars

\* Batches: the three-element page, worked with mouse and keyboard after
\* startSelectionSession, while the page removes elements, with the provider
\* the client was built with. The global shortcut, dispose and the provider
\* registry are left alone, so one finalization runs at a time.
InitBatch == InitPage(Elements)

NextBatch ==
  \/ StartSelectionSession(NullInstruction)
  \/ \E t \in MouseTargets : MouseMove(t)
  \/ \E t \in MouseTargets, b \in {0, 2}, m \in BOOLEAN : Click(t, b, m)
  \/ \E k \in EditKeys : KeyEdit(k)
  \/ KeyEscape
  \/ KeyEnter
  \/ \E e \in Detachable : Detach(e)
  \/ \E f \in FinSlots, w \in 1..CaptureConcurrency, ok \in BOOLEAN : CaptureSettles(f, w, ok)
  \/ \E f \in FinSlots, r \in BOOLEAN : SendSettles(f, r, FALSE, FALSE)

SpecBatch == InitBatch /\ [][NextBatch]_vars

(* ------------------------------------------------------------------ *)
(* createGrabrClient                                                   *)
(* ------------------------------------------------------------------ *)

\* The factory: the environment check, merge, validation, then the controller
\* and the overlay, whose constructor injects the styles, appends the root
\* and attaches the global shortcut listener.
createGrabrClient ==
  /\ client = "none"
  /\ IF ~hasBrowser
     THEN /\ client' = "threw-no-browser"
          /\ UNCHANGED <<overlay, domTouched>>
     ELSE LET checked == validateRuntimeConfigOrThrow(mergeRuntimeConfig(partialConfig))
          IN IF checked # "ok"
             THEN /\ client' = checked
                  /\ UNCHANGED <<overlay, domTouched>>
             ELSE /\ client' = "created"
                  /\ overlay' = TRUE
                  /\ domTouched' = TRUE
  /\ UNCHANGED <<connected, overlayVars, currentSession, currentInstruction, providerVars,
                 fins, report, partialConfig, hasBrowser, callVars>>

\* Before createGrabrClient is called, for every probed argument, in a
\* browser or not.
InitConfig ==
  /\ connected = Elements
  /\ selecting = FALSE
  /\ sending = FALSE
  /\ hoveredElement = NoElement
  /\ selectedElements = <<>>
  /\ listening = FALSE
  /\ overlay = FALSE
  /\ currentSession = NoSession
  /\ currentInstruction = NullInstruction
  /\ activeProvider = "clipboard0"
  /\ providerRegistry = [id \in ProviderIds |->
                           IF id = "clipboard" THEN "clipboard0" ELSE NoProvider]
  /\ fins = <<>>
  /\ report = NoReport
  /\ client = "none"
  /\ partialConfig \in ConfigInputs
  /\ hasBrowser \in BOOLEAN
  /\ domTouched = FALSE
  /\ callInput = NoCall
  /\ callOutput = <<>>

NextConfig == createGrabrClient

SpecConfig == InitConfig /\ [][NextConfig]_vars

(* ------------------------------------------------------------------ *)
(* Properties of a finalization's captures and progress events         *)
(* ------------------------------------------------------------------ *)

RunningFins == {fins[f] : f \in 1..Len(fins)}

\* The finalization that ended in the last step, if one did.
EndedFins == IF report.kind = "ended" THEN {report.fin} ELSE {}

\* Indexes of the elements whose capture failed.
FailedIndexes(fin) == {i \in 1..Len(fin.captured) : fin.captured[i] = "failed"}

AllCapturesSettled(fin) == \A i \in 1..Len(fin.captured) : fin.captured[i] # "pending"

\* The elements of the finalization whose capture succeeded, in selection order.
CapturedInOrder(fin) ==
  SelectSeq(fin.items,
            LAMBDA el : \E i \in 1..Len(fin.items) : fin.items[i] = el /\ fin.captured[i] = "ok")

HasPhase(fin, phase) == \E i \in 1..Len(fin.log) : fin.log[i].phase = phase

\* C1: when the capture fails for k of the n elements of a finalization,
\* 0 < k < n, the batch goes on: the session holds exactly the n - k captured
\* contexts in selection order, its summary mentions "k failed", and it has
\* been handed to the active provider.
C1_PartialFailureKeepsBatch ==
  \A fin \in RunningFins \cup EndedFins :
    LET n == Len(fin.items)
        k == Cardinality(FailedIndexes(fin))
    IN (AllCapturesSettled(fin) /\ 0 < k /\ k < n) =>
         /\ fin.session.exists
         /\ fin.session.elements = CapturedInOrder(fin)
         /\ Len(fin.session.elements) = n - k
         /\ fin.session.summary.mentionsFailed
         /\ fin.session.summary.failed = k
         /\ fin.session.summary.captured = n - k
         /\ fin.sentTo = activeProvider
         /\ HasPhase(fin, "sending")

\* Three elements finalized, the capture of the second failed: the session
\* with the first and the third is with the provider.
C1_Witness ==
  \E fin \in RunningFins :
    /\ fin.pc = "sending"
    /\ fin.items = <<2, 1, 3>>
    /\ fin.captured = <<"ok", "failed", "ok">>
    /\ fin.session.elements = <<2, 3>>
    /\ currentSession = fin.session

\* C2: when the capture fails for every element of a finalization, its last
\* progress event is an "error", it has no "sending" event, sendContext is
\* not called, no session is constructed and getCurrentSession() keeps the
\* value it had before the finalization: the step that starts a finalization,
\* every step taken while it captures and the step that ends it without a
\* session leave currentSession as it is.
C2_TotalFailureSendsNothing ==
  [][/\ (/\ report'.kind = "ended"
          /\ Len(report'.fin.items) >= 1
          /\ FailedIndexes(report'.fin) = 1..Len(report'.fin.items))
         => LET fin == report'.fin
            IN /\ fin.log[Len(fin.log)].phase = "error"
               /\ ~HasPhase(fin, "sending")
               /\ ~HasPhase(fin, "done")
               /\ fin.sentTo = NoProvider
               /\ fin.sendOutcome = "pending"
               /\ ~fin.session.exists
               /\ currentSession' = currentSession
     /\ (\/ fins = <<>> /\ Len(fins') = 1
         \/ /\ Len(fins) = 1
            /\ fins[1].pc = "capturing"
            /\ ~(Len(fins') = 1 /\ fins'[1].session.exists))
         => currentSession' = currentSession]_vars

\* A finalization of three elements ended with all three captures failed,
\* after an earlier finalization had stored a session.
C2_Witness ==
  /\ report.kind = "ended"
  /\ Len(report.fin.items) = 3
  /\ FailedIndexes(report.fin) = {1, 2, 3}
  /\ currentSession.exists

\* C10: the progress events of a finalization over n >= 1 elements are
\* building-context (0, n), then building-context (1, n) ... (n, n), one per
\* completed capture, then a single "sending" or "error"; every event has
\* 0 <= completed <= total and total = n.
C10_ProgressSequence ==
  \A fin \in RunningFins \cup EndedFins :
    LET n == fin.total
        log == fin.log
    IN n >= 1 =>
         /\ Len(log) >= 1
         /\ \A i \in 1..Len(log) :
              /\ log[i].total = n
              /\ 0 <= log[i].completed
              /\ log[i].completed <= log[i].total
         /\ \A i \in 1..Min(Len(log), n + 1) :
              log[i].phase = "building-context" /\ log[i].completed = i - 1
         /\ Len(log) = 1 + Cardinality({i \in 1..Len(fin.captured) : fin.captured[i] # "pending"})
                         + (IF fin.pc = "capturing" THEN 0
                            ELSE IF fin.pc = "sending" THEN 1
                            ELSE IF HasPhase(fin, "sending") /\ fin.pc = "returned" THEN 2
                            ELSE 1)
         /\ Len(log) >= n + 2 =>
              /\ log[n + 2].phase \in {"sending", "error"}
              /\ \A i \in (n + 3)..Len(log) :
                   log[n + 2].phase = "sending" /\ log[i].phase \in {"done", "error"}

\* A finalization of three elements, one capture failed, ended with all its
\* six events reported.
C10_Witness ==
  /\ report.kind = "ended"
  /\ report.fin.total = 3
  /\ Cardinality(FailedIndexes(report.fin)) = 1
  /\ Len(report.fin.log) = 6
  /\ report.fin.log[4] = Progress("building-context", 3, 3, "")
  /\ report.fin.log[5].phase = "sending"

(* ------------------------------------------------------------------ *)
(* Properties of the selection state machine                           *)
(* ------------------------------------------------------------------ *)

\* A step that invokes the overlay's beginSelection: startSelectionSession
\* on a client that is not disposed, or the global shortcut while neither
\* selecting nor sending.
BeginSelectionStep ==
  \/ overlay /\ \E i \in InstructionInputs : StartSelectionSession(i)
  \/ ~selecting /\ ~sending /\ GlobalToggle

\* A step that cancels: Escape in a selection, or the global shortcut.
CancelStep ==
  \/ ~HandlerIgnores /\ KeyEscape
  \/ (selecting \/ sending) /\ GlobalToggle

\* A hover, a click or a selection-editing key event.
SelectionEventStep ==
  \/ \E t \in MouseTargets : MouseMove(t)
  \/ \E t \in MouseTargets, b \in {0, 2}, m \in BOOLEAN : Click(t, b, m)
  \/ \E k \in EditKeys : KeyEdit(k)

\* C3 (as stated): a finalize request whose selected elements are all
\* detached ends with no session, no capture, an "error" progress event with
\* completed = 0 and total = 0, and the overlay idle.
C3_AllDetachedReportsError ==
  (report.kind \in {"cancelled-empty", "ended"} /\ Len(report.chosen) > 0
     /\ FilterConnected(dedupeElementsPreserveOrder(report.chosen)) = <<>>)
  => /\ ~report.fin.session.exists
     /\ report.fin.captured = <<>>
     /\ \E i \in 1..Len(report.fin.log) :
          /\ report.fin.log[i].phase = "error"
          /\ report.fin.log[i].completed = 0
          /\ report.fin.log[i].total = 0
     /\ ~selecting
     /\ ~sending

\* C4 (as stated): a constructed session is handed to sendContext once;
\* when sendContext resolved the last progress event is "done"; when it
\* rejected, the onError hook of the provider that got the session was called
\* once with the session's error and the last progress event is an "error"
\* with that error's message, with no "done".
C4_DeliveryOutcome ==
  (report.kind = "ended" /\ report.fin.session.exists)
  => LET fin == report.fin
         last == fin.log[Len(fin.log)]
     IN /\ fin.sentTo # NoProvider
        /\ fin.sendOutcome # "pending"
        /\ fin.sendOutcome = "resolved" =>
             /\ last.phase = "done"
             /\ fin.onErrorCalls = <<>>
        /\ fin.sendOutcome = "rejected" =>
             /\ HasHooks(fin.sentTo) => fin.onErrorCalls = << <<fin.sentTo, SendError>> >>
             /\ last = Progress("error", fin.total, fin.total, SendError)
             /\ ~HasPhase(fin, "done")

\* C5 (as stated): when a finalization ends, whatever its outcome, the
\* overlay is idle: not selecting, not sending, selection listeners detached.
C5_EndsIdle ==
  report.kind \in {"ended", "cancelled-empty"}
  => /\ ~selecting
     /\ ~sending
     /\ ~listening

\* C6 (as stated): beginSelection, invoked in idle, selecting or sending,
\* leaves the overlay selecting with no hovered and no selected element.
C6_BeginAlwaysSelecting ==
  [][BeginSelectionStep
     => /\ selecting'
        /\ ~sending'
        /\ hoveredElement' = NoElement
        /\ selectedElements' = <<>>]_vars

\* C6 (amended): beginSelection invoked while idle or selecting leaves the
\* overlay selecting, with its listeners attached and no hovered and no
\* selected element; invoked while sending it changes nothing in the overlay.
C6_BeginUnlessSending ==
  [][BeginSelectionStep
     => IF sending
        THEN UNCHANGED overlayVars
        ELSE /\ selecting'
             /\ ~sending'
             /\ listening'
             /\ hoveredElement' = NoElement
             /\ selectedElements' = <<>>]_vars

\* startSelectionSession("a") was called while the session of the running
\* finalization was being sent: the overlay still shows that finalization.
C6_Witness ==
  /\ sending
  /\ selecting
  /\ selectedElements = <<1>>
  /\ Len(fins) = 1
  /\ fins[1].pc = "sending"
  /\ fins[1].session.userInstruction = NullInstruction
  /\ currentInstruction = Str(<<"a">>)

\* C7: a cancel from selecting leaves the overlay idle with no hovered and no
\* selected element and changes nothing else: no finalization starts or
\* moves, the current session, the instruction and the providers stay; and
\* until dispose, Escape is listened to whenever the overlay is selecting.
C7_CancelHasNoOtherEffect ==
  /\ [](selecting /\ ~sending /\ overlay => listening)
  /\ [][(CancelStep /\ selecting /\ ~sending)
        => /\ ~selecting'
           /\ ~sending'
           /\ ~listening'
           /\ hoveredElement' = NoElement
           /\ selectedElements' = <<>>
           /\ UNCHANGED <<connected, overlay, currentSession, currentInstruction,
                          activeProvider, providerRegistry, fins, factoryVars, callVars>>]_vars

\* A selection with a selected element was cancelled while an earlier
\* session is stored.
C7_Witness ==
  /\ report.kind = "cancelled"
  /\ report.chosen = <<1>>
  /\ fins = <<>>
  /\ currentSession.exists
  /\ ~selecting
  /\ selectedElements = <<>>

\* C8: a hover, a click or an editing key changes the hovered element or the
\* selected elements only while the overlay is selecting and not sending.
C8_EventsOnlyWhileSelecting ==
  [][(SelectionEventStep /\ ~(selecting /\ ~sending))
     => UNCHANGED <<hoveredElement, selectedElements>>]_vars

\* The selection listeners are attached while the overlay is not selecting.
C8_Witness ==
  /\ listening
  /\ ~selecting
  /\ 1 \in connected

(* ------------------------------------------------------------------ *)
(* Properties of createGrabrClient                                     *)
(* ------------------------------------------------------------------ *)

\* The value a config field takes: the one given, or the default when the
\* field is absent (undefined or null) or no config is given at all.
GivenOr(value, default) ==
  IF partialConfig.given /\ value # Undefined /\ value # JsNull THEN value ELSE default

\* C9: in a browser, createGrabrClient throws a configuration error, with no
\* overlay created, no listener attached and the DOM untouched, exactly when
\* the config's reactInspectorMode is not "best-effort", "required" or "off"
\* or its maxReactStackFrames is not an integer in [1,64]; for every other
\* config it returns a client. (An absent field has its default value; whatever
\* createGrabrClient throws, it has not touched the DOM.)
C9_ConfigErrorBeforeDom ==
  client # "none" =>
    LET mode == GivenOr(partialConfig.reactInspectorMode, JsString("best-effort"))
        frames == GivenOr(partialConfig.maxReactStackFrames, JsNumber(8))
        modeValid == mode \in {JsString("best-effort"), JsString("required"), JsString("off")}
        framesValid == \E n \in 1..64 : frames = JsNumber(n)
    IN /\ client # "created" => ~overlay /\ ~domTouched /\ ~listening
       /\ hasBrowser =>
            IF modeValid /\ framesValid
            THEN client = "created" /\ overlay /\ domTouched
            ELSE client \in {"invalid-reactInspectorMode", "invalid-maxReactStackFrames"}

\* createGrabrClient({maxReactStackFrames: 0}) has thrown in a browser.
C9_Witness ==
  /\ hasBrowser
  /\ partialConfig = PartialConfig(Undefined, JsNumber(0))
  /\ client = "invalid-maxReactStackFrames"
  /\ ~domTouched

(* ------------------------------------------------------------------ *)
(* Properties of the current session                                   *)
(* ------------------------------------------------------------------ *)

\* A step in which a finalization with at least one captured element leaves
\* its capture pool, builds its session and stores it.
SessionConstructedStep ==
  \E f \in 1..Len(fins) :
    /\ fins[f].pc = "capturing"
    /\ Len(fins') >= f
    /\ fins'[f].pc = "sending"
    /\ \E i \in 1..Len(fins'[f].captured) : fins'[f].captured[i] = "ok"
    /\ fins'[f].session.exists
    /\ currentSession' = fins'[f].session

\* C11: getCurrentSession() is null or a session with at least one element,
\* and its value changes only in the step in which a finalization with a
\* successful capture constructs its session: begin, cancel, hover, click,
\* keys, provider registration and activation, dispose, the capture workers
\* and the settling of sendContext leave it as it is.
C11_SessionSoleWriter ==
  /\ [](currentSession.exists => Len(currentSession.elements) >= 1)
  /\ [][currentSession' # currentSession => SessionConstructedStep]_vars

\* A session is stored, and it has outlived a provider registration and
\* dispose.
C11_Witness ==
  /\ currentSession.exists
  /\ currentSession.elements = <<1>>
  /\ providerRegistry["clipboard"] = "custom"
  /\ ~overlay
  /\ fins = <<>>

(* ------------------------------------------------------------------ *)
(* mapWithConcurrencyLimit on its own                                  *)
(* ------------------------------------------------------------------ *)

\* Bounds of the pool scenarios: the largest limit, the longest item list.
MaxPoolLimit == 3
MaxPoolItems == 3

\* Items are drawn from two values, so that a list can repeat an item.
PoolItemValues == {1, 2}

RECURSIVE SeqsUpTo(_, _)
SeqsUpTo(S, n) ==
  IF n = 0 THEN {<<>>}
  ELSE LET shorter == SeqsUpTo(S, n - 1)
       IN shorter \cup {Append(q, x) : q \in {r \in shorter : Len(r) = n - 1}, x \in S}

PoolItemInputs == SeqsUpTo(PoolItemValues, MaxPoolItems)

\* What the mapper of the pool scenarios resolves with for an item at an
\* index (0-based): a value that tells both.
MapperResult(item, index) == 100 + 10 * index + item

\* A mapWithConcurrencyLimit(items, limit, mapper) call up to its first
\* suspension. With no item there is no worker and Promise.all([]) resolves.
StartPool(items, limit) ==
  LET pool == mapWithConcurrencyLimit(items, limit)
  IN [EmptyFin EXCEPT
        !.pc = IF Len(items) = 0 THEN "pool-resolved" ELSE "pool-running",
        !.items = items, !.total = Len(items), !.limit = limit,
        !.results = [i \in 1..Len(items) |-> Unset],
        !.workers = pool.workers, !.nextIndex = pool.nextIndex]

\* The mapper call worker w waits for settles. It is recorded in the log
\* (phase "mapped" or "mapper-rejected", with the index). A rejection rejects
\* Promise.all at once; the other workers run on.
PoolMapperSettles(w, ok) ==
  /\ Len(fins) = 1
  /\ fins[1].pc \in {"pool-running", "pool-rejected"}
  /\ w \in 1..Len(fins[1].workers)
  /\ fins[1].workers[w] # WorkerDone
  /\ LET fin == fins[1]
         index == fin.workers[w]
         logged == [fin EXCEPT
                      !.log = Append(@, Progress(IF ok THEN "mapped" ELSE "mapper-rejected",
                                                 index, fin.total, ""))]
         resumed == IF ok
                    THEN runWorker(logged, w, MapperResult(fin.items[index + 1], index))
                    ELSE runWorkerRejected(logged, w)
         status == IF ~ok \/ fin.pc = "pool-rejected" THEN "pool-rejected"
                   ELSE IF AllWorkersDone(resumed) THEN "pool-resolved"
                   ELSE "pool-running"
     IN fins' = <<[resumed EXCEPT !.pc = status]>>
  /\ UNCHANGED <<connected, overlayVars, overlay, currentSession, currentInstruction,
                 providerVars, report, factoryVars, callVars>>

\* A pool just started, for every probed item list and limit.
InitPool ==
  /\ connected = Elements
  /\ selecting = FALSE
  /\ sending = FALSE
  /\ hoveredElement = NoElement
  /\ selectedElements = <<>>
  /\ listening = FALSE
  /\ overlay = TRUE
  /\ currentSession = NoSession
  /\ currentInstruction = NullInstruction
  /\ activeProvider = "clipboard0"
  /\ providerRegistry = [id \in ProviderIds |->
                           IF id = "clipboard" THEN "clipboard0" ELSE NoProvider]
  /\ \E items \in PoolItemInputs, limit \in 1..MaxPoolLimit :
       fins = <<StartPool(items, limit)>>
  /\ report = NoReport
  /\ client = "created"
  /\ partialConfig = DefaultPartial
  /\ hasBrowser = TRUE
  /\ domTouched = TRUE
  /\ callInput = NoCall
  /\ callOutput = <<>>

NextPool == \E w \in 1..MaxPoolLimit, ok \in BOOLEAN : PoolMapperSettles(w, ok)

SpecPool == InitPool /\ [][NextPool]_vars

\* C12: when the pool resolves, its array has the input's length and its
\* i-th entry is the mapper's result for the i-th item, whatever the limit,
\* the number of items and the order in which the mapper calls completed;
\* and it resolves exactly when every worker has left its loop and no mapper
\* call rejected.
C12_PoolKeepsInputOrder ==
  \A fin \in RunningFins :
    /\ fin.pc = "pool-resolved" =>
         /\ Len(fin.results) = Len(fin.items)
         /\ \A i \in 1..Len(fin.items) :
              fin.results[i] = MapperResult(fin.items[i], i - 1)
    /\ (AllWorkersDone(fin) /\ ~HasPhase(fin, "mapper-rejected")) => fin.pc = "pool-resolved"

\* Three items under limit 2 whose mapper calls completed in the order
\* second, first, third: the pool has resolved.
C12_Witness ==
  \E fin \in RunningFins :
    /\ fin.pc = "pool-resolved"
    /\ fin.limit = 2
    /\ fin.items = <<2, 1, 2>>
    /\ Len(fin.log) = 3
    /\ fin.log[1].completed = 1
    /\ fin.log[2].completed = 0
    /\ fin.log[3].completed = 2

(* ------------------------------------------------------------------ *)
(* Overlapping finalizations                                           *)
(* ------------------------------------------------------------------ *)

\* Overlap: a page with a container and one child, selections started with
\* the global shortcut, which is also pressed while a finalization runs,
\* made by clicking and finalized with Enter.
InitOverlap == InitPage({1, 2})

NextOverlap ==
  \/ GlobalToggle
  \/ \E t \in MouseTargets, b \in {0, 2}, m \in BOOLEAN : Click(t, b, m)
  \/ KeyEnter
  \/ \E f \in FinSlots, w \in 1..CaptureConcurrency, ok \in BOOLEAN : CaptureSettles(f, w, ok)
  \/ \E f \in FinSlots, r \in BOOLEAN : SendSettles(f, r, FALSE, FALSE)

SpecOverlap == InitOverlap /\ [][NextOverlap]_vars

\* The getElementContext calls of a finalization that have started and not
\* settled, as indexes into its items.
InFlight(fin) == {i \in 1..fin.nextIndex : fin.captured[i] = "pending"}

RECURSIVE SumInFlight(_)
SumInFlight(running) ==
  IF running = <<>> THEN 0
  ELSE Cardinality(InFlight(Head(running))) + SumInFlight(Tail(running))

\* C13 (as stated): at every instant at most 2 per-element captures are in
\* flight.
C13_AtMostTwoInFlight == SumInFlight(fins) <= 2

(* ------------------------------------------------------------------ *)
(* toSerializableValue                                                 *)
(* ------------------------------------------------------------------ *)

\* A call of an exported pure function, about to run: the client stands idle
\* beside it.
InitCall(fn, args) ==
  /\ connected = Elements
  /\ selecting = FALSE
  /\ sending = FALSE
  /\ hoveredElement = NoElement
  /\ selectedElements = <<>>
  /\ listening = FALSE
  /\ overlay = TRUE
  /\ currentSession = NoSession
  /\ currentInstruction = NullInstruction
  /\ activeProvider = "clipboard0"
  /\ providerRegistry = [id \in ProviderIds |->
                           IF id = "clipboard" THEN "clipboard0" ELSE NoProvider]
  /\ fins = <<>>
  /\ report = NoReport
  /\ client = "created"
  /\ partialConfig = DefaultPartial
  /\ hasBrowser = TRUE
  /\ domTouched = TRUE
  /\ callInput = [fn |-> fn, args |-> args]
  /\ callOutput = <<>>

CallUnchanged ==
  UNCHANGED <<connected, overlayVars, overlay, currentSession, currentInstruction,
              providerVars, fins, report, factoryVars, callInput>>

Called(fn) == callInput.fn = fn /\ callOutput # <<>>

\* A string is the sequence of its characters. Ascii lists the printable
\* characters from code 32 on; charCodeAt is the position in it.
Ascii ==
  <<
    " ", "!", "\"", "#", "$", "%", "&", "'", "(", ")", "*", "+", ",", "-", ".", "/",
    "0", "1", "2", "3", "4", "5", "6", "7", "8", "9", ":", ";", "<", "=", ">", "?",
    "@", "A", "B", "C", "D", "E", "F", "G", "H", "I", "J", "K", "L", "M", "N", "O",
    "P", "Q", "R", "S", "T", "U", "V", "W", "X", "Y", "Z", "[", "\\", "]", "^", "_",
    "U+0060", "a", "b", "c", "d", "e", "f", "g", "h", "i", "j", "k", "l", "m", "n", "o",
    "p", "q", "r", "s", "t", "u", "v", "w", "x", "y", "z", "{", "|", "}", "~"
  >>

CharCodes ==
  [c \in {Ascii[i] : i \in 1..Len(Ascii)} |-> 31 + CHOOSE i \in 1..Len(Ascii) : Ascii[i] = c]
charCodeAt(c) == CharCodes[c]

\* Number.prototype.toString of an integer.
RECURSIVE DecimalDigits(_)
DecimalDigits(n) ==
  IF n < 10 THEN <<Ascii[17 + n]>>
  ELSE Append(DecimalDigits(n \div 10), Ascii[17 + (n % 10)])

NumberToString(n) == IF n < 0 THEN <<"-">> \o DecimalDigits(0 - n) ELSE DecimalDigits(n)

\* A JavaScript value: its kind (t), the payload of a string, number or
\* boolean as the characters JSON writes for it (p), and the items of an
\* array or the own enumerable entries of an object, in iteration order
\* (kids). An array's items carry the key 0.
Entry(k, v) == [k |-> k, v |-> v]
VString(chars) == [t |-> "string", p |-> chars, kids |-> <<>>]
VNumber(n) == [t |-> "number", p |-> NumberToString(n), kids |-> <<>>]
VBoolean(b) ==
  [t |-> "boolean", p |-> IF b THEN <<"t", "r", "u", "e">> ELSE <<"f", "a", "l", "s", "e">>,
   kids |-> <<>>]
VNull == [t |-> "null", p |-> <<>>, kids |-> <<>>]
VUndefined == [t |-> "undefined", p |-> <<>>, kids |-> <<>>]
VFunction == [t |-> "function", p |-> <<>>, kids |-> <<>>]
VArray(items) == [t |-> "array", p |-> <<>>, kids |-> items]
VObject(entries) == [t |-> "object", p |-> <<>>, kids |-> entries]

SerializablePrimitiveKinds == {"string", "number", "boolean"}

MaxSerializeDepth == 2
MaxArrayItems == 5
MaxObjectEntries == 8

\* if (depth > 2) return null
TooDeepEarly(depth) == depth >= MaxSerializeDepth
TooDeep(depth) == depth > MaxSerializeDepth

RECURSIVE toSerializableValue(_, _)
RECURSIVE toSerializableArrayLoop(_, _, _, _)
RECURSIVE toSerializableObjectLoop(_, _, _, _, _)

\* for (let i = 0; i < value.length && i < 5; i += 1): the converted item is
\* pushed unless it is null.
toSerializableArrayLoop(value, i, depth, items) ==
  IF i < Len(value) /\ i < MaxArrayItems
  THEN LET converted == toSerializableValue(value[i + 1].v, depth + 1)
       IN toSerializableArrayLoop(value, i + 1, depth,
            IF converted # VNull THEN Append(items, Entry(0, converted)) ELSE items)
  ELSE items

\* for (const [key, v] of entries): the loop breaks once count >= 8, and
\* count grows only when a converted value is stored.
toSerializableObjectLoop(entries, j, depth, out, count) ==
  IF j > Len(entries) THEN out
  ELSE IF count >= MaxObjectEntries THEN out
  ELSE LET converted == toSerializableValue(entries[j].v, depth + 1)
       IN IF converted # VNull
          THEN toSerializableObjectLoop(entries, j + 1, depth,
                 Append(out, Entry(entries[j].k, converted)), count + 1)
          ELSE toSerializableObjectLoop(entries, j + 1, depth, out, count)

toSerializableValue(value, depth) ==
  IF TooDeep(depth) THEN VNull
  ELSE IF value.t = "null" THEN VNull
  ELSE IF value.t \in SerializablePrimitiveKinds THEN value
  ELSE IF value.t = "array"
  THEN VArray(toSerializableArrayLoop(value.kids, 0, depth, <<>>))
  ELSE IF value.t = "object"
  THEN VObject(toSerializableObjectLoop(value.kids, 1, depth, <<>>, 0))
  ELSE VNull

\* The probed values: every kind of leaf; arrays of up to MaxArrayLen numbers
\* and objects of up to MaxObjectLen numbered keys, with at most one item
\* or entry replaced by null or undefined; and each of these wrapped up to
\* MaxWrap times in a one-item array or a one-key object.
MaxArrayLen == 6
MaxObjectLen == 9
MaxWrap == 3

Leaves == {VString(<<"a">>), VNumber(1), VBoolean(TRUE), VNull, VUndefined, VFunction}
Holes == {VNull, VUndefined}
ItemAt(i, hole, j) == IF i = j THEN hole ELSE VNumber(i)
FlatArrays ==
  {VArray([i \in 1..n |-> Entry(0, ItemAt(i, hole, j))]) :
     <<n, j, hole>> \in {x \in (0..MaxArrayLen) \X (0..MaxArrayLen) \X Holes : x[2] <= x[1]}}
FlatObjects ==
  {VObject([i \in 1..n |-> Entry(i, ItemAt(i, hole, j))]) :
     <<n, j, hole>> \in {x \in (0..MaxObjectLen) \X (0..MaxObjectLen) \X Holes : x[2] <= x[1]}}
WrapArray(v) == VArray(<<Entry(0, v)>>)
WrapObject(v) == VObject(<<Entry(1, v)>>)

RECURSIVE Wrapped(_, _)
Wrapped(values, times) ==
  IF times = 0 THEN values
  ELSE LET inner == Wrapped(values, times - 1)
       IN inner \cup {WrapArray(v) : v \in inner} \cup {WrapObject(v) : v \in inner}

SerializeInputs == Wrapped(Leaves \cup FlatArrays \cup FlatObjects, MaxWrap)

CallToSerializableValue ==
  /\ callInput.fn = "toSerializableValue"
  /\ callOutput = <<>>
  /\ callOutput' = <<toSerializableValue(callInput.args[1], callInput.args[2])>>
  /\ CallUnchanged

InitSerialize ==
  \E value \in SerializeInputs, depth \in 0..(MaxSerializeDepth + 1) :
    InitCall("toSerializableValue", <<value, depth>>)

NextSerialize == CallToSerializableValue

SpecSerialize == InitSerialize /\ [][NextSerialize]_vars

\* How many containers lie around the innermost value of v.
RECURSIVE Nesting(_)
RECURSIVE MaxNesting(_)
MaxNesting(kids) ==
  IF kids = <<>> THEN 0
  ELSE LET h == Nesting(Head(kids).v)
           r == MaxNesting(Tail(kids))
       IN IF h >= r THEN h ELSE r
Nesting(v) == IF v.t \in {"array", "object"} THEN 1 + MaxNesting(v.kids) ELSE 0

\* v cut to the first 5 items of every array and the first 8 keys of every
\* object, nothing else changed.
RECURSIVE Restricted(_)
Restricted(v) ==
  IF v.t = "array"
  THEN VArray([i \in 1..Min(Len(v.kids), MaxArrayItems) |->
                 Entry(0, Restricted(v.kids[i].v))])
  ELSE IF v.t = "object"
  THEN VObject([i \in 1..Min(Len(v.kids), MaxObjectEntries) |->
                  Entry(v.kids[i].k, Restricted(v.kids[i].v))])
  ELSE v

\* Nothing inside v converts to null: every leaf is a string, a number or a
\* boolean.
RECURSIVE NoHoles(_)
NoHoles(v) ==
  IF v.t \in {"array", "object"}
  THEN \A i \in 1..Len(v.kids) : NoHoles(v.kids[i].v)
  ELSE v.t \in SerializablePrimitiveKinds

\* No object inside v has more than 8 entries.
RECURSIVE SmallObjects(_)
SmallObjects(v) ==
  /\ v.t = "object" => Len(v.kids) <= MaxObjectEntries
  /\ \A i \in 1..Len(v.kids) : SmallObjects(v.kids[i].v)

\* v made of null, strings, numbers, booleans, arrays and objects only.
RECURSIVE IsJson(_)
IsJson(v) ==
  /\ v.t \notin {"undefined", "function"}
  /\ \A i \in 1..Len(v.kids) : IsJson(v.kids[i].v)

\* v with every item and entry that converts to null dropped, arrays first
\* cut to their first 5 items.
RECURSIVE Kept(_)
Kept(v) ==
  IF v.t = "array"
  THEN LET firsts == [i \in 1..Min(Len(v.kids), MaxArrayItems) |->
                        Entry(0, Kept(v.kids[i].v))]
       IN VArray(SelectSeq(firsts, LAMBDA e : e.v # VNull))
  ELSE IF v.t = "object"
  THEN LET all == [i \in 1..Len(v.kids) |-> Entry(v.kids[i].k, Kept(v.kids[i].v))]
       IN VObject(SelectSeq(all, LAMBDA e : e.v # VNull))
  ELSE IF v.t \in SerializablePrimitiveKinds THEN v
  ELSE VNull

\* Every array inside v has at most 5 items, every object at most 8 keys,
\* and no item or entry is null.
RECURSIVE WithinLimits(_)
WithinLimits(v) ==
  /\ v.t = "array" => Len(v.kids) <= MaxArrayItems
  /\ v.t = "object" => Len(v.kids) <= MaxObjectEntries
  /\ \A i \in 1..Len(v.kids) : v.kids[i].v # VNull /\ WithinLimits(v.kids[i].v)

\* C14 (as stated): toSerializableValue(v, 0) on a value nested at most 2
\* levels deep is structurally equal to v restricted to 8 keys per object
\* and the first 5 items per array, and a call with depth > 2 returns null.
C14_EqualToRestricted ==
  Called("toSerializableValue") =>
    LET v == callInput.args[1]
        depth == callInput.args[2]
    IN /\ depth > MaxSerializeDepth => callOutput[1] = VNull
       /\ depth = 0 /\ Nesting(v) <= MaxSerializeDepth /\ IsJson(v)
            => callOutput[1] = Restricted(v)

\* C14 (amended): toSerializableValue(v, 0) on a value nested at most 2
\* levels deep is v restricted in that way when nothing inside v converts to
\* null; otherwise the items and entries that convert to null are dropped:
\* the result is within the limits with no null inside, and it is exactly v
\* with those dropped (arrays first cut to 5 items) when no object of v has
\* more than 8 entries. A call with depth > 2 returns null.
C14_EqualUpToDropped ==
  Called("toSerializableValue") =>
    LET v == callInput.args[1]
        depth == callInput.args[2]
        shallow == depth = 0 /\ Nesting(v) <= MaxSerializeDepth
    IN /\ depth > MaxSerializeDepth => callOutput[1] = VNull
       /\ shallow /\ NoHoles(v) => callOutput[1] = Restricted(v)
       /\ shallow /\ SmallObjects(v) => callOutput[1] = Kept(v)
       /\ shallow => WithinLimits(callOutput[1])

\* {1: [1, null, 3, 4, 5, 6]} converted at depth 0: the null is dropped and
\* the sixth item cut.
C14_Witness ==
  /\ Called("toSerializableValue")
  /\ callInput.args = <<WrapObject(VArray([i \in 1..6 |-> Entry(0, ItemAt(i, VNull, 2))])), 0>>
  /\ callOutput[1] = WrapObject(VArray(<<Entry(0, VNumber(1)), Entry(0, VNumber(3)),
                                         Entry(0, VNumber(4)), Entry(0, VNumber(5))>>))

\* C15 (as stated): of an object only the first 8 entries are attempted, so
\* no key at position 9 or later of the input appears in the output.
C15_NoBackfill ==
  Called("toSerializableValue") /\ callInput.args[1].t = "object"
                                /\ callInput.args[2] <= MaxSerializeDepth =>
    LET entries == callInput.args[1].kids
        firstKeys == {entries[i].k : i \in 1..Min(Len(entries), MaxObjectEntries)}
        out == callOutput[1].kids
    IN \A i \in 1..Len(out) : out[i].k \in firstKeys

(* ------------------------------------------------------------------ *)
(* truncateText                                                        *)
(* ------------------------------------------------------------------ *)

\* A text is a sequence of characters. The probed texts are made of two
\* letters and two whitespace characters.
Letters == {"a", "b"}
WhiteSpace == {" ", "\t"}
Ellipsis == "U+2026"
MaxTextLen == 5
MaxLimit == 4
TextInputs == UNION {[1..n -> Letters \cup WhiteSpace] : n \in 0..MaxTextLen}

\* String.prototype.trim
RECURSIVE TrimStart(_)
TrimStart(s) ==
  IF s # <<>> /\ Head(s) \in WhiteSpace THEN TrimStart(Tail(s)) ELSE s

RECURSIVE TrimEnd(_)
TrimEnd(s) ==
  IF s # <<>> /\ s[Len(s)] \in WhiteSpace THEN TrimEnd(SubSeq(s, 1, Len(s) - 1)) ELSE s

TrimText(s) == TrimEnd(TrimStart(s))

\* replace(/\s+/g, " "): every maximal run of whitespace becomes one space.
RECURSIVE CollapseWhitespace(_)
CollapseWhitespace(s) ==
  IF s = <<>> THEN <<>>
  ELSE IF Head(s) \in WhiteSpace
  THEN <<" ">> \o CollapseWhitespace(TrimStart(s))
  ELSE <<Head(s)>> \o CollapseWhitespace(Tail(s))

truncateTextBelowLimit(text, limit) ==
  LET trimmed == CollapseWhitespace(TrimText(text))
  IN IF Len(trimmed) < limit THEN trimmed
     ELSE Append(SubSeq(trimmed, 1, limit), Ellipsis)

truncateText(text, limit) ==
  LET trimmed == CollapseWhitespace(TrimText(text))
  IN IF Len(trimmed) <= limit THEN trimmed
     ELSE Append(SubSeq(trimmed, 1, limit), Ellipsis)

CallTruncateText ==
  /\ callInput.fn = "truncateText"
  /\ callOutput = <<>>
  /\ callOutput' = <<truncateText(callInput.args[1], callInput.args[2])>>
  /\ CallUnchanged

InitTruncate ==
  \E text \in TextInputs, limit \in 0..MaxLimit : InitCall("truncateText", <<text, limit>>)

NextTruncate == CallTruncateText

SpecTruncate == InitTruncate /\ [][NextTruncate]_vars

HasEllipsis(s) == \E i \in 1..Len(s) : s[i] = Ellipsis

\* The claim of C16 about a text whose length is measured on `measured`.
TruncatedBy(measured, limit, result) ==
  /\ Len(result) <= limit + 1
  /\ Len(result) = limit + 1 <=> Len(measured) > limit
  /\ IF Len(measured) > limit
     THEN result = Append(SubSeq(measured, 1, limit), Ellipsis)
     ELSE ~HasEllipsis(result)

\* C16 (as stated): truncateText(s, limit) has length at most limit + 1, and
\* exactly limit + 1 iff the trimmed input is longer than limit; it is then
\* the first limit characters and one ellipsis, and otherwise has no ellipsis.
C16_LengthByTrimmedInput ==
  Called("truncateText") =>
    TruncatedBy(TrimText(callInput.args[1]), callInput.args[2], callOutput[1])

\* C16 (amended): the same, with the length taken of the input trimmed and
\* with every run of whitespace collapsed to one space, which is also the
\* text returned when it is not longer than limit.
C16_LengthByCollapsedInput ==
  Called("truncateText") =>
    LET collapsed == CollapseWhitespace(TrimText(callInput.args[1]))
    IN /\ TruncatedBy(collapsed, callInput.args[2], callOutput[1])
       /\ Len(collapsed) <= callInput.args[2] => callOutput[1] = collapsed

\* " a \t b" with limit 3: the trimmed input has 5 characters, the collapsed
\* one 3, and "a b" is returned whole.
C16_Witness ==
  /\ Called("truncateText")
  /\ callInput.args = <<<<" ", "a", " ", "\t", "b">>, 3>>
  /\ callOutput[1] = <<"a", " ", "b">>

(* ------------------------------------------------------------------ *)
(* Prompt rendering                                                    *)
(* ------------------------------------------------------------------ *)

\* The characters of the string literals of the renderers and of the probed
\* contexts.
Chars(s) ==
  CASE
    s = "data" -> <<"d", "a", "t", "a">>
    []
    s = "isloading" -> <<"i", "s", "l", "o", "a", "d", "i", "n", "g">>
    []
    s = "loading" -> <<"l", "o", "a", "d", "i", "n", "g">>
    []
    s = "error" -> <<"e", "r", "r", "o", "r">>
    []
    s = "swr" -> <<"s", "w", "r">>
    []
    s = "selector" -> <<"s", "e", "l", "e", "c", "t", "o", "r">>
    []
    s = "isLoading" -> <<"i", "s", "L", "o", "a", "d", "i", "n", "g">>
    []
    s = "swrKey" -> <<"s", "w", "r", "K", "e", "y">>
    []
    s = "userSelector" -> <<"u", "s", "e", "r", "S", "e", "l", "e", "c", "t", "o", "r">>
    []
    s = "onClick" -> <<"o", "n", "C", "l", "i", "c", "k">>
    []
    s = "" -> <<>>
    []
    s = " elements." -> <<" ", "e", "l", "e", "m", "e", "n", "t", "s", ".">>
    []
    s = "#a" -> <<"#", "a">>
    []
    s = "(none)" -> <<"(", "n", "o", "n", "e", ")">>
    []
    s = "/" -> <<"/">>
    []
    s = "<div>" -> <<"<", "d", "i", "v", ">">>
    []
    s = "<host>" -> <<"<", "h", "o", "s", "t", ">">>
    []
    s = "Button" -> <<"B", "u", "t", "t", "o", "n">>
    []
    s = "React debug info unavailable." -> <<"R", "e", "a", "c", "t", " ", "d", "e", "b", "u", "g", " ", "i", "n", "f", "o", " ", "u", "n", "a", "v", "a", "i", "l", "a", "b", "l", "e", ".">>
    []
    s = "Session with " -> <<"S", "e", "s", "s", "i", "o", "n", " ", "w", "i", "t", "h", " ">>
    []
    s = "[]" -> <<"[", "]">>
    []
    s = "a" -> <<"a">>
    []
    s = "anonymous" -> <<"a", "n", "o", "n", "y", "m", "o", "u", "s">>
    []
    s = "app" -> <<"a", "p", "p">>
    []
    s = "available" -> <<"a", "v", "a", "i", "l", "a", "b", "l", "e">>
    []
    s = "behavior" -> <<"b", "e", "h", "a", "v", "i", "o", "r">>
    []
    s = "boundingBox" -> <<"b", "o", "u", "n", "d", "i", "n", "g", "B", "o", "x">>
    []
    s = "build" -> <<"b", "u", "i", "l", "d">>
    []
    s = "buildType" -> <<"b", "u", "i", "l", "d", "T", "y", "p", "e">>
    []
    s = "children" -> <<"c", "h", "i", "l", "d", "r", "e", "n">>
    []
    s = "classes" -> <<"c", "l", "a", "s", "s", "e", "s">>
    []
    s = "clickable" -> <<"c", "l", "i", "c", "k", "a", "b", "l", "e">>
    []
    s = "col" -> <<"c", "o", "l">>
    []
    s = "columnNumber" -> <<"c", "o", "l", "u", "m", "n", "N", "u", "m", "b", "e", "r">>
    []
    s = "component" -> <<"c", "o", "m", "p", "o", "n", "e", "n", "t">>
    []
    s = "componentDisplayName" -> <<"c", "o", "m", "p", "o", "n", "e", "n", "t", "D", "i", "s", "p", "l", "a", "y", "N", "a", "m", "e">>
    []
    s = "confidence" -> <<"c", "o", "n", "f", "i", "d", "e", "n", "c", "e">>
    []
    s = "createdAt" -> <<"c", "r", "e", "a", "t", "e", "d", "A", "t">>
    []
    s = "dataSources" -> <<"d", "a", "t", "a", "S", "o", "u", "r", "c", "e", "s">>
    []
    s = "dataTestId" -> <<"d", "a", "t", "a", "T", "e", "s", "t", "I", "d">>
    []
    s = "dev" -> <<"d", "e", "v">>
    []
    s = "displayName" -> <<"d", "i", "s", "p", "l", "a", "y", "N", "a", "m", "e">>
    []
    s = "div" -> <<"d", "i", "v">>
    []
    s = "dom" -> <<"d", "o", "m">>
    []
    s = "elements" -> <<"e", "l", "e", "m", "e", "n", "t", "s">>
    []
    s = "entries" -> <<"e", "n", "t", "r", "i", "e", "s">>
    []
    s = "false" -> <<"f", "a", "l", "s", "e">>
    []
    s = "fiber" -> <<"f", "i", "b", "e", "r">>
    []
    s = "file" -> <<"f", "i", "l", "e">>
    []
    s = "fileName" -> <<"f", "i", "l", "e", "N", "a", "m", "e">>
    []
    s = "fix" -> <<"f", "i", "x">>
    []
    s = "flags" -> <<"f", "l", "a", "g", "s">>
    []
    s = "fn" -> <<"f", "n">>
    []
    s = "framework" -> <<"f", "r", "a", "m", "e", "w", "o", "r", "k">>
    []
    s = "full" -> <<"f", "u", "l", "l">>
    []
    s = "h" -> <<"h">>
    []
    s = "handlers" -> <<"h", "a", "n", "d", "l", "e", "r", "s">>
    []
    s = "hash" -> <<"h", "a", "s", "h">>
    []
    s = "height" -> <<"h", "e", "i", "g", "h", "t">>
    []
    s = "high" -> <<"h", "i", "g", "h">>
    []
    s = "highlighted" -> <<"h", "i", "g", "h", "l", "i", "g", "h", "t", "e", "d">>
    []
    s = "hints" -> <<"h", "i", "n", "t", "s">>
    []
    s = "id" -> <<"i", "d">>
    []
    s = "identity" -> <<"i", "d", "e", "n", "t", "i", "t", "y">>
    []
    s = "idx" -> <<"i", "d", "x">>
    []
    s = "inference" -> <<"i", "n", "f", "e", "r", "e", "n", "c", "e">>
    []
    s = "inferenceLevel" -> <<"i", "n", "f", "e", "r", "e", "n", "c", "e", "L", "e", "v", "e", "l">>
    []
    s = "inspectorStatus" -> <<"i", "n", "s", "p", "e", "c", "t", "o", "r", "S", "t", "a", "t", "u", "s">>
    []
    s = "isHost" -> <<"i", "s", "H", "o", "s", "t">>
    []
    s = "isLikelyServerComponent" -> <<"i", "s", "L", "i", "k", "e", "l", "y", "S", "e", "r", "v", "e", "r", "C", "o", "m", "p", "o", "n", "e", "n", "t">>
    []
    s = "kind" -> <<"k", "i", "n", "d">>
    []
    s = "layout" -> <<"l", "a", "y", "o", "u", "t">>
    []
    s = "layoutComponents" -> <<"l", "a", "y", "o", "u", "t", "C", "o", "m", "p", "o", "n", "e", "n", "t", "s">>
    []
    s = "line" -> <<"l", "i", "n", "e">>
    []
    s = "lineNumber" -> <<"l", "i", "n", "e", "N", "u", "m", "b", "e", "r">>
    []
    s = "message" -> <<"m", "e", "s", "s", "a", "g", "e">>
    []
    s = "name" -> <<"n", "a", "m", "e">>
    []
    s = "nearestSource" -> <<"n", "e", "a", "r", "e", "s", "t", "S", "o", "u", "r", "c", "e">>
    []
    s = "no-hook" -> <<"n", "o", "-", "h", "o", "o", "k">>
    []
    s = "none" -> <<"n", "o", "n", "e">>
    []
    s = "null" -> <<"n", "u", "l", "l">>
    []
    s = "ok" -> <<"o", "k">>
    []
    s = "origin" -> <<"o", "r", "i", "g", "i", "n">>
    []
    s = "owner" -> <<"o", "w", "n", "e", "r">>
    []
    s = "ownerContexts" -> <<"o", "w", "n", "e", "r", "C", "o", "n", "t", "e", "x", "t", "s">>
    []
    s = "ownerIndex" -> <<"o", "w", "n", "e", "r", "I", "n", "d", "e", "x">>
    []
    s = "ownerProps" -> <<"o", "w", "n", "e", "r", "P", "r", "o", "p", "s">>
    []
    s = "ownerState" -> <<"o", "w", "n", "e", "r", "S", "t", "a", "t", "e">>
    []
    s = "pageComponent" -> <<"p", "a", "g", "e", "C", "o", "m", "p", "o", "n", "e", "n", "t">>
    []
    s = "parents" -> <<"p", "a", "r", "e", "n", "t", "s">>
    []
    s = "pathname" -> <<"p", "a", "t", "h", "n", "a", "m", "e">>
    []
    s = "preferred" -> <<"p", "r", "e", "f", "e", "r", "r", "e", "d">>
    []
    s = "prop" -> <<"p", "r", "o", "p">>
    []
    s = "react" -> <<"r", "e", "a", "c", "t">>
    []
    s = "reactDebug" -> <<"r", "e", "a", "c", "t", "D", "e", "b", "u", "g">>
    []
    s = "reason" -> <<"r", "e", "a", "s", "o", "n">>
    []
    s = "role" -> <<"r", "o", "l", "e">>
    []
    s = "routeParamsGuess" -> <<"r", "o", "u", "t", "e", "P", "a", "r", "a", "m", "s", "G", "u", "e", "s", "s">>
    []
    s = "routePatternGuess" -> <<"r", "o", "u", "t", "e", "P", "a", "t", "t", "e", "r", "n", "G", "u", "e", "s", "s">>
    []
    s = "s1" -> <<"s", "1">>
    []
    s = "search" -> <<"s", "e", "a", "r", "c", "h">>
    []
    s = "sel_" -> <<"s", "e", "l", "_">>
    []
    s = "selection" -> <<"s", "e", "l", "e", "c", "t", "i", "o", "n">>
    []
    s = "selectors" -> <<"s", "e", "l", "e", "c", "t", "o", "r", "s">>
    []
    s = "siblings" -> <<"s", "i", "b", "l", "i", "n", "g", "s">>
    []
    s = "snippet" -> <<"s", "n", "i", "p", "p", "e", "t">>
    []
    s = "source" -> <<"s", "o", "u", "r", "c", "e">>
    []
    s = "src/B.tsx" -> <<"s", "r", "c", "/", "B", ".", "t", "s", "x">>
    []
    s = "stack" -> <<"s", "t", "a", "c", "k">>
    []
    s = "styling" -> <<"s", "t", "y", "l", "i", "n", "g">>
    []
    s = "summary" -> <<"s", "u", "m", "m", "a", "r", "y">>
    []
    s = "t" -> <<"t">>
    []
    s = "t0" -> <<"t", "0">>
    []
    s = "tag" -> <<"t", "a", "g">>
    []
    s = "tests" -> <<"t", "e", "s", "t", "s">>
    []
    s = "total" -> <<"t", "o", "t", "a", "l">>
    []
    s = "true" -> <<"t", "r", "u", "e">>
    []
    s = "two" -> <<"t", "w", "o">>
    []
    s = "undefined" -> <<"u", "n", "d", "e", "f", "i", "n", "e", "d">>
    []
    s = "unknown" -> <<"u", "n", "k", "n", "o", "w", "n">>
    []
    s = "url" -> <<"u", "r", "l">>
    []
    s = "userInstruction" -> <<"u", "s", "e", "r", "I", "n", "s", "t", "r", "u", "c", "t", "i", "o", "n">>
    []
    s = "value" -> <<"v", "a", "l", "u", "e">>
    []
    s = "version" -> <<"v", "e", "r", "s", "i", "o", "n">>
    []
    s = "w" -> <<"w">>
    []
    s = "width" -> <<"w", "i", "d", "t", "h">>
    []
    s = "x" -> <<"x">>
    []
    s = "y" -> <<"y">>
    []
    s = "{}" -> <<"{", "}">>

RECURSIVE Join(_, _)
Join(parts, separator) ==
  IF parts = <<>> THEN <<>>
  ELSE IF Len(parts) = 1 THEN parts[1]
  ELSE parts[1] \o separator \o Join(Tail(parts), separator)

\* A 32-bit integer as two 16-bit halves.
HalfWord == 65536
U32(hi, lo) == [hi |-> hi, lo |-> lo]

\* hash << 5
ShiftLeft5(h) ==
  LET lo == h.lo * 32
  IN U32((h.hi * 32 + lo \div HalfWord) % HalfWord, lo % HalfWord)

\* a - b on 32 bits
Minus32(a, b) ==
  LET borrow == IF a.lo < b.lo THEN 1 ELSE 0
  IN U32((a.hi + HalfWord - b.hi - borrow) % HalfWord, (a.lo + HalfWord - b.lo) % HalfWord)

\* a + code on 32 bits
Plus32(a, code) ==
  LET lo == a.lo + code
  IN U32((a.hi + lo \div HalfWord) % HalfWord, lo % HalfWord)

HexDigits == <<"0", "1", "2", "3", "4", "5", "6", "7", "8", "9", "a", "b", "c", "d", "e", "f">>

RECURSIVE HexOf(_)
HexOf(n) ==
  IF n < 16 THEN <<HexDigits[n + 1]>>
  ELSE Append(HexOf(n \div 16), HexDigits[(n % 16) + 1])

\* (hash >>> 0).toString(16)
ToHex32(h) ==
  IF h.hi = 0 THEN HexOf(h.lo)
  ELSE HexOf(h.hi) \o <<HexDigits[(h.lo \div 4096) + 1], HexDigits[((h.lo \div 256) % 16) + 1],
                         HexDigits[((h.lo \div 16) % 16) + 1], HexDigits[(h.lo % 16) + 1]>>

\* hash |= 0 leaves the low 32 bits.
Int32(h) == U32(h.hi % HalfWord, h.lo % HalfWord)

\* for (i...) { hash = (hash << 5) - hash + input.charCodeAt(i); hash |= 0 }
\* The turns from..to of the loop, entered with hash; a range of several
\* turns is run as its first half and then, from the hash that one leaves,
\* its second half.
RECURSIVE promptChecksumLoop(_, _, _, _)
promptChecksumLoop(input, from, to, hash) ==
  IF from > to THEN hash
  ELSE IF from = to
  THEN Int32(Plus32(Minus32(ShiftLeft5(hash), hash), charCodeAt(input[from])))
  ELSE LET middle == (from + to) \div 2
           half == promptChecksumLoop(input, from, middle, hash)
       IN IF half = Int32(half)
          THEN promptChecksumLoop(input, middle + 1, to, half)
          ELSE promptChecksumLoop(input, middle + 1, to, Int32(half))

promptChecksum(input) == ToHex32(promptChecksumLoop(input, 1, Len(input), U32(0, 0)))

\* JSON.stringify with the replacer of stringifyForPrompt: undefined values
\* are left out, null ones too when dropNull. An object member whose value
\* is left out is omitted, an array item left out is written null. The
\* result <<>> stands for undefined. The probed strings hold no character
\* that JSON escapes.
RECURSIVE JsonProperty(_, _)
RECURSIVE JsonItems(_, _)
RECURSIVE JsonMembers(_, _)

JsonQuote(chars) == <<"\"">> \o chars \o <<"\"">>

JsonItems(kids, dropNull) ==
  IF kids = <<>> THEN <<>>
  ELSE LET text == JsonProperty(Head(kids).v, dropNull)
       IN <<IF text = <<>> THEN Chars("null") ELSE text>> \o JsonItems(Tail(kids), dropNull)

JsonMembers(kids, dropNull) ==
  IF kids = <<>> THEN <<>>
  ELSE LET text == JsonProperty(Head(kids).v, dropNull)
           rest == JsonMembers(Tail(kids), dropNull)
       IN IF text = <<>> THEN rest
          ELSE <<JsonQuote(Chars(Head(kids).k)) \o <<":">> \o text>> \o rest

JsonProperty(val, dropNull) ==
  IF val.t \in {"undefined", "function"} THEN <<>>
  ELSE IF val.t = "null" THEN IF dropNull THEN <<>> ELSE Chars("null")
  ELSE IF val.t \in {"boolean", "number"} THEN val.p
  ELSE IF val.t = "string" THEN JsonQuote(val.p)
  ELSE IF val.t = "array"
  THEN <<"[">> \o Join(JsonItems(val.kids, dropNull), <<",">>) \o <<"]">>
  ELSE <<"{">> \o Join(JsonMembers(val.kids, dropNull), <<",">>) \o <<"}">>

stringifyForPrompt(value, dropNull) == JsonProperty(value, dropNull)

\* A line of a prompt: a tag with its id and checksum, a section or element
\* marker, or key=value.
Line(kind, key, idx, id, checksum, value) ==
  [kind |-> kind, key |-> key, idx |-> idx, id |-> id, checksum |-> checksum, value |-> value]
TagLine(tag, id, checksum) == Line(tag, "", 0, id, checksum, <<>>)
Marker(kind, key, idx) == Line(kind, key, idx, <<>>, <<>>, <<>>)
KeyValue(key, value) == Line("line", key, 0, <<>>, <<>>, value)

\* maybeAddLine with its options resolved (dropNull ?? true, allowEmpty ??
\* false). An undefined serialization is written by the template literal as
\* the word undefined.
maybeAddLine(lines, key, value, dropNull, allowEmpty) ==
  IF value.t \in {"null", "undefined"} /\ dropNull THEN lines
  ELSE LET serialized == stringifyForPrompt(value, dropNull)
       IN IF ~allowEmpty /\ (serialized = Chars("{}") \/ serialized = Chars("[]")) THEN lines
          ELSE Append(lines, KeyValue(key, IF serialized = <<>> THEN Chars("undefined")
                                           ELSE serialized))

\* obj[key], undefined when obj has no such own property (or is no object).
Get(obj, key) ==
  IF \E i \in 1..Len(obj.kids) : obj.kids[i].k = key
  THEN obj.kids[CHOOSE i \in 1..Len(obj.kids) : obj.kids[i].k = key].v
  ELSE VUndefined

\* a ?? b
Coalesce(a, b) == IF a.t \in {"null", "undefined"} THEN b ELSE a

S(literal) == VString(Chars(literal))

formatSourceForPrompt(source) ==
  IF source.t \in {"null", "undefined"} THEN VNull
  ELSE VObject(
         <<Entry("file", Get(source, "fileName")),
           Entry("confidence", Get(source, "confidence")),
           Entry("origin", Get(source, "origin"))>>
         \o (IF Get(source, "lineNumber").t # "null"
             THEN <<Entry("line", Get(source, "lineNumber"))>> ELSE <<>>)
         \o (IF Get(source, "columnNumber").t # "null"
             THEN <<Entry("col", Get(source, "columnNumber"))>> ELSE <<>>))

\* Math.round(x).toString() of the probed coordinates, which are integers.
RoundedString(x) == x.p

deriveSelectionId(context) ==
  LET s == Get(context, "selection")
      parts == <<Coalesce(Get(Get(s, "identity"), "id"), S("")).p,
                 Coalesce(Get(Get(s, "identity"), "dataTestId"), S("")).p,
                 Get(s, "tag").p,
                 Coalesce(Get(s, "componentDisplayName"), S("")).p,
                 Coalesce(Get(Get(s, "nearestSource"), "fileName"), S("")).p,
                 RoundedString(Get(Get(s, "boundingBox"), "x")),
                 RoundedString(Get(Get(s, "boundingBox"), "y"))>>
  IN Chars("sel_") \o promptChecksum(Join(parts, <<"|">>))

formatReactStack(react) ==
  LET frameOf(frame, idx) ==
        VObject(
          <<Entry("idx", VNumber(idx)),
            Entry("displayName", Coalesce(Get(frame, "displayName"), S("<host>"))),
            Entry("isHost", Get(frame, "isHost")),
            Entry("source", formatSourceForPrompt(Get(frame, "source"))),
            Entry("flags", Get(frame, "flags"))>>
          \o (IF Get(react, "ownerIndex") = VNumber(idx)
              THEN <<Entry("owner", VBoolean(TRUE))>> ELSE <<>>))
  IN LET stack == Get(react, "stack").kids
     IN VArray([i \in 1..Len(stack) |-> Entry(0, frameOf(stack[i].v, i - 1))])

formatPropsSnapshot(snapshot) ==
  IF snapshot.t \in {"null", "undefined"} THEN VNull
  ELSE LET highlightOf(h, idx) ==
             VObject(<<Entry("name", Get(h, "name")), Entry("reason", Get(h, "reason")),
                       Entry("value", Get(h, "value"))>>)
       IN VObject(<<Entry("total", Get(snapshot, "totalProps")),
                    Entry("highlighted",
                          LET highlighted == Get(snapshot, "highlighted").kids
                          IN VArray([i \in 1..Len(highlighted) |->
                                       Entry(0, highlightOf(highlighted[i].v, i - 1))]))>>)

formatStateSnapshot(snapshot) ==
  IF snapshot.t \in {"null", "undefined"} THEN VNull
  ELSE VObject(<<Entry("total", Get(snapshot, "totalHooks")),
                 Entry("entries", Get(snapshot, "entries"))>>)

formatContextSnapshot(snapshot) ==
  IF snapshot.t \in {"null", "undefined"} THEN VNull
  ELSE VObject(<<Entry("total", Get(snapshot, "totalContexts")),
                 Entry("entries", Get(snapshot, "entries"))>>)

formatBehaviorHandlers(handlers) ==
  LET handlerOf(h, idx) ==
        VObject(<<Entry("prop", Get(h, "propName")),
                  Entry("kind", Get(h, "inferredKind")),
                  Entry("fn", Coalesce(Get(h, "functionName"), S("anonymous"))),
                  Entry("component", Coalesce(Get(h, "declaredOnComponent"), S("unknown"))),
                  Entry("source", formatSourceForPrompt(Get(h, "source"))),
                  Entry("inference", Get(h, "inferenceSource"))>>)
  IN VArray([i \in 1..Len(handlers.kids) |-> Entry(0, handlerOf(handlers.kids[i].v, i - 1))])

\* section(name, fn): the marker, the lines fn pushes, the end marker.
Section(name, body) == <<Marker("section", name, 0)>> \o body \o <<Marker("end", name, 0)>>

SelectionTag(selectionId, checksum) == TagLine("ai_grab_selection", selectionId, checksum)

SelectionEndTagSwapped(selectionId, checksum) ==
  TagLine("ai_grab_selection_end", checksum, selectionId)
SelectionEndTag(selectionId, checksum) ==
  TagLine("ai_grab_selection_end", selectionId, checksum)

\* The lines renderElementContextPrompt joins with "\n".
renderElementContextPrompt(context) ==
  LET selectionId == deriveSelectionId(context)
      checksum == promptChecksum(stringifyForPrompt(context, FALSE))
      s == Get(context, "selection")
      dom == Get(context, "dom")
      react == Get(context, "react")
      style == Get(context, "styling")
      app == Get(context, "app")
      behavior == Get(context, "behavior")
      tests == Get(context, "tests")
      box == Get(s, "boundingBox")
      identity == Get(s, "identity")
      reactDebug ==
        Coalesce(Get(context, "reactDebug"),
                 VObject(<<Entry("buildType", S("unknown")),
                           Entry("inspectorStatus", S("no-hook")),
                           Entry("message", S("React debug info unavailable."))>>))
      testsPresent == tests.t = "object" /\ Len(Get(tests, "hints").kids) > 0
      meta1 == maybeAddLine(<<>>, "version", VNumber(2), FALSE, FALSE)
      meta2 == maybeAddLine(meta1, "sel_id", VString(selectionId), FALSE, FALSE)
      meta3 == maybeAddLine(meta2, "checksum", VString(checksum), FALSE, FALSE)
      meta4 == maybeAddLine(meta3, "react_available", VBoolean(react.t # "null"), TRUE, FALSE)
      meta5 == maybeAddLine(meta4, "react_inspector_status",
                            Get(reactDebug, "inspectorStatus"), TRUE, FALSE)
      meta6 == maybeAddLine(meta5, "react_build", Get(reactDebug, "buildType"), TRUE, FALSE)
      meta7 == maybeAddLine(meta6, "react_message", Get(reactDebug, "message"), TRUE, FALSE)
      meta8 == maybeAddLine(meta7, "source_hint_present",
                            VBoolean(Get(s, "nearestSource").t # "null"), TRUE, FALSE)
      meta9 == maybeAddLine(meta8, "tests_present", VBoolean(testsPresent), TRUE, FALSE)
      sel1 == maybeAddLine(<<>>, "tag", Get(s, "tag"), FALSE, FALSE)
      sel2 == maybeAddLine(sel1, "bounding_box",
                VObject(<<Entry("x", Get(box, "x")), Entry("y", Get(box, "y")),
                          Entry("w", Get(box, "width")), Entry("h", Get(box, "height"))>>),
                FALSE, FALSE)
      sel3 == maybeAddLine(sel2, "identity",
                VObject(<<Entry("id", Get(identity, "id")),
                          Entry("dataTestId", Get(identity, "dataTestId")),
                          Entry("role", Get(identity, "role")),
                          Entry("classes", Get(identity, "classes"))>>),
                FALSE, FALSE)
      sel4 == maybeAddLine(sel3, "component", Get(s, "componentDisplayName"), TRUE, FALSE)
      sel5 == maybeAddLine(sel4, "nearest_source",
                           formatSourceForPrompt(Get(s, "nearestSource")), TRUE, FALSE)
      sel6 == maybeAddLine(sel5, "is_server_component",
                           Get(s, "isLikelyServerComponent"), TRUE, FALSE)
      dom1 == maybeAddLine(<<>>, "snippet", Get(dom, "snippet"), FALSE, FALSE)
      dom2 == maybeAddLine(dom1, "parents", Get(dom, "parents"), TRUE, FALSE)
      dom3 == maybeAddLine(dom2, "siblings", Get(dom, "siblings"), TRUE, FALSE)
      dom4 == maybeAddLine(dom3, "children", Get(dom, "children"), TRUE, FALSE)
      dom5 == maybeAddLine(dom4, "selectors", Get(dom, "selectors"), TRUE, FALSE)
      react1 == maybeAddLine(<<>>, "status",
                  VObject(<<Entry("available", VBoolean(react.t # "null")),
                            Entry("inspectorStatus", Get(reactDebug, "inspectorStatus")),
                            Entry("build", Get(reactDebug, "buildType")),
                            Entry("message", Get(reactDebug, "message"))>>),
                  TRUE, FALSE)
      react2 == maybeAddLine(react1, "owner_index", Get(react, "ownerIndex"), FALSE, FALSE)
      react3 == maybeAddLine(react2, "stack", formatReactStack(react), TRUE, TRUE)
      react4 == maybeAddLine(react3, "owner_props",
                             formatPropsSnapshot(Get(react, "ownerProps")), TRUE, TRUE)
      react5 == maybeAddLine(react4, "owner_state",
                             formatStateSnapshot(Get(react, "ownerState")), TRUE, TRUE)
      react6 == maybeAddLine(react5, "owner_contexts",
                             formatContextSnapshot(Get(react, "ownerContexts")), TRUE, TRUE)
      style1 == maybeAddLine(<<>>, "layout", Get(style, "layout"), TRUE, FALSE)
      style2 == maybeAddLine(style1, "spacing", Get(style, "spacing"), TRUE, FALSE)
      style3 == maybeAddLine(style2, "size", Get(style, "size"), TRUE, FALSE)
      style4 == maybeAddLine(style3, "typography", Get(style, "typography"), TRUE, FALSE)
      style5 == maybeAddLine(style4, "colors", Get(style, "colors"), TRUE, FALSE)
      style6 == maybeAddLine(style5, "clickable", Get(style, "clickable"), FALSE, FALSE)
      behavior1 == maybeAddLine(<<>>, "inference_level", Get(behavior, "inferenceLevel"),
                                FALSE, FALSE)
      behavior2 == maybeAddLine(behavior1, "handlers",
                                formatBehaviorHandlers(Get(behavior, "handlers")), TRUE, TRUE)
      app1 == maybeAddLine(<<>>, "url",
                VObject(<<Entry("full", Get(app, "url")), Entry("pathname", Get(app, "pathname")),
                          Entry("search", Get(app, "search")), Entry("hash", Get(app, "hash"))>>),
                TRUE, FALSE)
      sourceOf(loc, idx) == formatSourceForPrompt(loc)
      app2 == maybeAddLine(app1, "routing",
                VObject(<<Entry("framework", Get(app, "framework")),
                          Entry("routePatternGuess", Get(app, "routePatternGuess")),
                          Entry("routeParamsGuess", Get(app, "routeParamsGuess")),
                          Entry("pageComponent", formatSourceForPrompt(Get(app, "pageComponent"))),
                          Entry("layoutComponents",
                                LET layouts == Get(app, "layoutComponents").kids
                                IN VArray([i \in 1..Len(layouts) |->
                                             Entry(0, sourceOf(layouts[i].v, i - 1))]))>>),
                TRUE, TRUE)
      app3 == maybeAddLine(app2, "data_sources", Get(app, "dataSources"), TRUE, TRUE)
      tests1 == maybeAddLine(<<>>, "hints", Coalesce(Get(tests, "hints"), VArray(<<>>)),
                             TRUE, TRUE)
  IN <<SelectionTag(selectionId, checksum)>>
     \o Section("meta", meta9)
     \o Section("selection", sel6)
     \o Section("dom", dom5)
     \o Section("react", IF react.t # "null" THEN react6 ELSE react1)
     \o Section("styling", style6)
     \o Section("behavior", behavior2)
     \o Section("app", app3)
     \o (IF tests.t = "object" THEN Section("tests", tests1) ELSE <<>>)
     \o <<SelectionEndTag(selectionId, checksum)>>

\* session.elements.forEach((ctx, idx) => ...): the lines of one element.
ElementBlockOneBased(ctx, idx) ==
  <<Marker("element", "", idx + 1)>> \o renderElementContextPrompt(ctx)
    \o <<Marker("end:element", "", idx + 1)>>
ElementBlock(ctx, idx) ==
  <<Marker("element", "", idx)>> \o renderElementContextPrompt(ctx)
    \o <<Marker("end:element", "", idx)>>

RECURSIVE ElementBlocks(_, _)
ElementBlocks(elements, idx) ==
  IF idx >= Len(elements) THEN <<>>
  ELSE ElementBlock(elements[idx + 1].v, idx) \o ElementBlocks(elements, idx + 1)

\* The lines renderSessionPrompt joins with "\n"; the string pushed for an
\* element is its lines joined the same way.
renderSessionPrompt(session) ==
  LET checksum == promptChecksum(stringifyForPrompt(session, FALSE))
      elements == Get(session, "elements").kids
      count == NumberToString(Len(elements))
      meta1 == maybeAddLine(<<>>, "created_at", Get(session, "createdAt"), FALSE, FALSE)
      meta2 == maybeAddLine(meta1, "url", Get(session, "url"), FALSE, FALSE)
      meta3 == maybeAddLine(meta2, "instruction",
                            Coalesce(Get(session, "userInstruction"), S("(none)")), FALSE, FALSE)
      meta4 == maybeAddLine(meta3, "summary",
                 Coalesce(Get(session, "summary"),
                          VString(Chars("Session with ") \o count \o Chars(" elements."))),
                 FALSE, FALSE)
      meta5 == maybeAddLine(meta4, "element_count", VNumber(Len(elements)), FALSE, FALSE)
  IN <<TagLine("ai_grab_session", Get(session, "id").p, checksum)>>
     \o Section("meta", meta5)
     \o Section("elements", ElementBlocks(elements, 0))
     \o <<TagLine("ai_grab_session_end", Get(session, "id").p, checksum)>>

\* A context with or without an element id, a React slice (with its
\* component and source) and a tests block.
ContextInput(id, withReact, withTests) ==
  LET source == VObject(<<Entry("fileName", S("src/B.tsx")), Entry("lineNumber", VNumber(3)),
                          Entry("columnNumber", VNull), Entry("confidence", S("high")),
                          Entry("origin", S("fiber"))>>)
      frame == VObject(<<Entry("displayName", S("Button")), Entry("isHost", VBoolean(FALSE)),
                         Entry("source", source), Entry("flags", VArray(<<>>))>>)
  IN VObject(
       <<Entry("version", VNumber(2)),
         Entry("selection",
           VObject(<<Entry("tag", S("div")),
                     Entry("boundingBox",
                       VObject(<<Entry("x", VNumber(12)), Entry("y", VNumber(-7)),
                                 Entry("width", VNumber(100)), Entry("height", VNumber(20))>>)),
                     Entry("identity",
                       VObject(<<Entry("id", id), Entry("dataTestId", VNull),
                                 Entry("role", VNull), Entry("classes", VArray(<<>>))>>)),
                     Entry("componentDisplayName", IF withReact THEN S("Button") ELSE VNull),
                     Entry("nearestSource", IF withReact THEN source ELSE VNull),
                     Entry("isLikelyServerComponent", VNull)>>)),
         Entry("dom",
           VObject(<<Entry("snippet", S("<div>")), Entry("parents", VArray(<<>>)),
                     Entry("siblings", VArray(<<>>)), Entry("children", VArray(<<>>)),
                     Entry("selectors", VObject(<<Entry("preferred", S("#a"))>>))>>)),
         Entry("react",
           IF withReact
           THEN VObject(<<Entry("stack", VArray(<<Entry(0, frame)>>)),
                          Entry("ownerIndex", VNumber(0)), Entry("ownerProps", VNull),
                          Entry("ownerState", VNull), Entry("ownerContexts", VNull)>>)
           ELSE VNull),
         Entry("reactDebug",
           VObject(<<Entry("buildType", S("dev")),
                     Entry("inspectorStatus", S(IF withReact THEN "ok" ELSE "no-hook")),
                     Entry("message", VNull)>>)),
         Entry("styling",
           VObject(<<Entry("layout", VObject(<<>>)), Entry("clickable", VBoolean(FALSE))>>)),
         Entry("behavior",
           VObject(<<Entry("inferenceLevel", S("none")), Entry("handlers", VArray(<<>>))>>)),
         Entry("app",
           VObject(<<Entry("url", S("/")), Entry("pathname", S("/")), Entry("search", S("")),
                     Entry("hash", S("")), Entry("framework", S("unknown")),
                     Entry("routePatternGuess", VNull), Entry("routeParamsGuess", VNull),
                     Entry("pageComponent", VNull), Entry("layoutComponents", VArray(<<>>)),
                     Entry("dataSources",
                           VArray(<<Entry(0, VObject(<<Entry("kind", S("unknown"))>>))>>))>>))>>
       \o (IF withTests
           THEN <<Entry("tests", VObject(<<Entry("hints", VArray(<<Entry(0, S("t"))>>))>>))>>
           ELSE <<>>))

\* The probed contexts: a bare element, one with an id and tests, and one
\* with an id, a React slice and tests.
ContextInputs ==
  {ContextInput(VNull, FALSE, FALSE), ContextInput(S("a"), FALSE, TRUE),
   ContextInput(S("a"), TRUE, TRUE)}

MaxSessionElements == 2
MaxRenderCalls == 2

SessionInput(userInstruction, summary, elements) ==
  VObject(<<Entry("id", S("s1")), Entry("createdAt", S("t0")), Entry("url", S("/")),
            Entry("userInstruction", userInstruction), Entry("summary", summary),
            Entry("elements", VArray(elements))>>)

\* The probed sessions: up to MaxSessionElements contexts, with neither an
\* instruction nor a summary or with both.
SessionInputs ==
  {SessionInput(given[1], given[2], [i \in 1..Len(contexts) |-> Entry(0, contexts[i])]) :
     given \in {<<VNull, VNull>>, <<S("fix"), S("two")>>},
     contexts \in SeqsUpTo(ContextInputs, MaxSessionElements)}

\* A renderer called once more: its lines are appended to the outputs.
Rendered(fn, idx, lines) == [fn |-> fn, idx |-> idx, lines |-> lines]

CallRenderElementContextPrompt(idx) ==
  /\ callInput.fn = "render"
  /\ Len(callOutput) < MaxRenderCalls
  /\ idx < Len(Get(callInput.args[1], "elements").kids)
  /\ callOutput' =
       Append(callOutput,
              Rendered("renderElementContextPrompt", idx,
                       renderElementContextPrompt(
                         Get(callInput.args[1], "elements").kids[idx + 1].v)))
  /\ CallUnchanged

CallRenderSessionPrompt ==
  /\ callInput.fn = "render"
  /\ Len(callOutput) < MaxRenderCalls
  /\ callOutput' = Append(callOutput,
                          Rendered("renderSessionPrompt", 0,
                                   renderSessionPrompt(callInput.args[1])))
  /\ CallUnchanged

InitRender == \E session \in SessionInputs : InitCall("render", <<session>>)

NextRender ==
  \/ \E idx \in 0..MaxSessionElements : CallRenderElementContextPrompt(idx)
  \/ CallRenderSessionPrompt

SpecRender == InitRender /\ [][NextRender]_vars

\* Where a line stands in a prompt, and the lines of its first meta section.
IndexesOf(lines, line) == {i \in 1..Len(lines) : lines[i] = line}
FirstIndexOf(lines, line) ==
  CHOOSE i \in IndexesOf(lines, line) : \A j \in IndexesOf(lines, line) : i <= j
MetaSection(lines) ==
  SubSeq(lines, FirstIndexOf(lines, Marker("section", "meta", 0)) + 1,
         FirstIndexOf(lines, Marker("end", "meta", 0)) - 1)
HasKey(lines, key) == \E i \in 1..Len(lines) : lines[i].kind = "line" /\ lines[i].key = key
ValueOf(lines, key) ==
  lines[CHOOSE i \in 1..Len(lines) : lines[i].kind = "line" /\ lines[i].key = key].value

C18_SessionBlocks ==
  \A k \in 1..Len(callOutput) :
    callInput.fn = "render" /\ callOutput[k].fn = "renderSessionPrompt" =>
      LET lines == callOutput[k].lines
          elements == Get(callInput.args[1], "elements").kids
          n == Len(elements)
          opening == Marker("section", "elements", 0)
          closing == Marker("end", "elements", 0)
          start == FirstIndexOf(lines, opening)
          end == FirstIndexOf(lines, closing)
          first(i) == FirstIndexOf(lines, Marker("element", "", i))
          last(i) == FirstIndexOf(lines, Marker("end:element", "", i))
      IN /\ Cardinality(IndexesOf(lines, opening)) = 1
         /\ Cardinality(IndexesOf(lines, closing)) = 1
         /\ start = FirstIndexOf(lines, Marker("end", "meta", 0)) + 1
         /\ Cardinality({i \in 1..Len(lines) : lines[i].kind = "element"}) = n
         /\ Cardinality({i \in 1..Len(lines) : lines[i].kind = "end:element"}) = n
         /\ \A i \in 0..(n - 1) :
              /\ Cardinality(IndexesOf(lines, Marker("element", "", i))) = 1
              /\ Cardinality(IndexesOf(lines, Marker("end:element", "", i))) = 1
              /\ first(i) = IF i = 0 THEN start + 1 ELSE last(i - 1) + 1
              /\ SubSeq(lines, first(i) + 1, last(i) - 1)
                   = renderElementContextPrompt(elements[i + 1].v)
         /\ end = IF n = 0 THEN start + 1 ELSE last(n - 1) + 1
         /\ HasKey(MetaSection(lines), "element_count")
         /\ ValueOf(MetaSection(lines), "element_count") = NumberToString(n)

\* A session of two different contexts, a bare one and one with a React
\* slice and a tests block, rendered.
C18_Witness ==
  /\ callInput.fn = "render"
  /\ Len(callOutput) >= 1
  /\ callOutput[1].fn = "renderSessionPrompt"
  /\ LET elements == Get(callInput.args[1], "elements").kids
     IN /\ Len(elements) = 2
        /\ elements[1].v = ContextInput(VNull, FALSE, FALSE)
        /\ elements[2].v = ContextInput(S("a"), TRUE, TRUE)
        /\ Len(callOutput[1].lines) > 40

(* ------------------------------------------------------------------ *)
(* buildAppContext: framework and data-source strategies               *)
(* ------------------------------------------------------------------ *)

\* String.prototype.toLowerCase on the printable characters.
ToLowerCase(chars) ==
  [i \in 1..Len(chars) |->
     IF charCodeAt(chars[i]) >= 65 /\ charCodeAt(chars[i]) <= 90
     THEN Ascii[charCodeAt(chars[i]) + 1]
     ELSE chars[i]]

\* String.prototype.includes and Array.prototype.includes
StringIncludes(chars, part) ==
  \E from \in 1..(Len(chars) - Len(part) + 1) :
    SubSeq(chars, from, from + Len(part) - 1) = part
ArrayIncludes(items, item) == \E i \in 1..Len(items) : items[i] = item

\* A DataSourceHint; null is written "null".
DataSourceHint(kind, identifier, description) ==
  [kind |-> kind, identifier |-> identifier, description |-> description]
UnknownHint == DataSourceHint("unknown", "null", "null")

\* basicDataSourceStrategy.detect; ownerProps is null (exists = FALSE) or
\* holds the names of the highlighted props.
basicDataSourceStrategy(ownerProps) ==
  LET propNames == IF ownerProps.exists THEN ownerProps.names ELSE <<>>
      lowerNames == [i \in 1..Len(propNames) |-> ToLowerCase(propNames[i])]
      hasData == ArrayIncludes(lowerNames, Chars("data"))
      hasIsLoading == ArrayIncludes(lowerNames, Chars("isloading"))
                        \/ ArrayIncludes(lowerNames, Chars("loading"))
      hasError == ArrayIncludes(lowerNames, Chars("error"))
      hints ==
        (IF hasData /\ hasIsLoading /\ hasError
         THEN <<DataSourceHint("react-query", "null",
                               "Props suggest React Query-like async data (data/loading/error).")>>
         ELSE <<>>)
        \o (IF \E i \in 1..Len(lowerNames) : StringIncludes(lowerNames[i], Chars("swr"))
            THEN <<DataSourceHint("swr", "null", "Props mention SWR, likely SWR-based data.")>>
            ELSE <<>>)
        \o (IF \E i \in 1..Len(lowerNames) : StringIncludes(lowerNames[i], Chars("selector"))
            THEN <<DataSourceHint("redux", "null", "Selector-like props hint at Redux selectors.")>>
            ELSE <<>>)
  IN IF Len(hints) = 0 THEN <<UnknownHint>> ELSE hints

\* strategy.detect(input) of a configured data-source strategy: the basic
\* one, or a custom one that returns no hint or one hint of its own.
DataSourceStrategies == {"basic-data-props", "custom-none", "custom-trpc"}
detectDataSources(strategy, ownerProps) ==
  IF strategy = "basic-data-props" THEN basicDataSourceStrategy(ownerProps)
  ELSE IF strategy = "custom-trpc" THEN <<DataSourceHint("trpc", "router", "null")>>
  ELSE <<>>

\* for (const strategy of ...) collected.push(...strategy.detect(input))
RECURSIVE collectDataSources(_, _)
collectDataSources(strategies, ownerProps) ==
  IF strategies = <<>> THEN <<>>
  ELSE detectDataSources(Head(strategies), ownerProps)
         \o collectDataSources(Tail(strategies), ownerProps)

\* The dataSources of buildAppContext.
dataSourcesWithoutFallback(strategies, reactSlice) ==
  collectDataSources(strategies,
                     IF reactSlice.exists THEN reactSlice.ownerProps
                     ELSE [exists |-> FALSE, names |-> <<>>])
dataSources(strategies, reactSlice) ==
  LET ownerProps == IF reactSlice.exists THEN reactSlice.ownerProps
                    ELSE [exists |-> FALSE, names |-> <<>>]
      collected == collectDataSources(strategies, ownerProps)
  IN IF Len(collected) > 0 THEN collected ELSE <<UnknownHint>>

\* A FrameworkDetectionResult, or NullResult for null.
FrameworkResult(framework, routePatternGuess, routeParamsGuess) ==
  [isNull |-> FALSE, framework |-> framework, routePatternGuess |-> routePatternGuess,
   routeParamsGuess |-> routeParamsGuess, pageComponent |-> "null", layoutComponents |-> <<>>]
NullResult == [FrameworkResult("", "", "") EXCEPT !.isNull = TRUE]
UnknownFramework == FrameworkResult("unknown", "null", "null")

\* strategy.detect(input) of a configured framework strategy: the generic
\* one, which always answers unknown; one that answers null without a React
\* slice and a Next app route with one; and one that always answers null.
FrameworkStrategies == {"generic", "next-app-with-react", "never"}
detectFramework(strategy, reactSlice) ==
  IF strategy = "generic" THEN UnknownFramework
  ELSE IF strategy = "next-app-with-react" /\ reactSlice.exists
  THEN FrameworkResult("next-app", "/users/[id]", "id")
  ELSE NullResult

\* frameworkStrategies.map((strategy) => strategy.detect(...)): every
\* strategy's detect is called, in order.
detectCalls(strategies) == [i \in 1..Len(strategies) |-> i]
mapDetect(strategies, reactSlice) ==
  [i \in 1..Len(strategies) |-> detectFramework(strategies[i], reactSlice)]

\* .find((result) => result !== null) ?? { framework: "unknown", ... }
frameworkResult(strategies, reactSlice) ==
  LET results == mapDetect(strategies, reactSlice)
      found == {i \in 1..Len(results) : ~results[i].isNull}
  IN IF found = {} THEN UnknownFramework
     ELSE results[CHOOSE i \in found : \A j \in found : i <= j]

\* buildAppContext, with the detect calls it made on the framework
\* strategies.
buildAppContext(reactSlice, config) ==
  LET result == frameworkResult(config.frameworkStrategies, reactSlice)
  IN [framework |-> result.framework,
      routePatternGuess |-> result.routePatternGuess,
      routeParamsGuess |-> result.routeParamsGuess,
      pageComponent |-> result.pageComponent,
      layoutComponents |-> result.layoutComponents,
      dataSources |-> dataSources(config.dataSourceStrategies, reactSlice),
      frameworkDetectCalls |-> detectCalls(config.frameworkStrategies)]

\* The probed inputs: no React slice, a slice without owner props, or one
\* whose highlighted props are any of the probed names, in this order; and
\* up to MaxStrategies strategies of each kind.
MaxStrategies == 2
PropNames ==
  <<Chars("data"), Chars("isLoading"), Chars("error"), Chars("swrKey"),
    Chars("userSelector"), Chars("onClick")>>
RECURSIVE Picked(_, _)
Picked(names, chosen) ==
  IF names = <<>> THEN <<>>
  ELSE (IF Len(names) \in chosen THEN <<Head(names)>> ELSE <<>>)
         \o Picked(Tail(names), chosen)
ReactSliceInputs ==
  {[exists |-> FALSE, ownerProps |-> [exists |-> FALSE, names |-> <<>>]],
   [exists |-> TRUE, ownerProps |-> [exists |-> FALSE, names |-> <<>>]]}
  \cup {[exists |-> TRUE, ownerProps |-> [exists |-> TRUE, names |-> Picked(PropNames, chosen)]] :
          chosen \in SUBSET (1..Len(PropNames))}
HeuristicsInputs ==
  {[frameworkStrategies |-> f, dataSourceStrategies |-> d] :
     f \in SeqsUpTo(FrameworkStrategies, MaxStrategies),
     d \in SeqsUpTo(DataSourceStrategies, MaxStrategies)}

CallBuildAppContext ==
  /\ callInput.fn = "buildAppContext"
  /\ callOutput = <<>>
  /\ callOutput' = <<buildAppContext(callInput.args[1], callInput.args[2])>>
  /\ CallUnchanged

InitContext ==
  \E reactSlice \in ReactSliceInputs, config \in HeuristicsInputs :
    InitCall("buildAppContext", <<reactSlice, config>>)

NextContext == CallBuildAppContext

SpecContext == InitContext /\ [][NextContext]_vars

\* No prop-name heuristic of the basic strategy matches the owner props.
NoHeuristicMatches(reactSlice) ==
  basicDataSourceStrategy(IF reactSlice.exists THEN reactSlice.ownerProps
                          ELSE [exists |-> FALSE, names |-> <<>>]) = <<UnknownHint>>

OnlyBasic(strategies) == \A i \in 1..Len(strategies) : strategies[i] = "basic-data-props"

\* C19 (as stated): for every list of data-source strategies and every
\* owner props, dataSources is not empty, and when no prop-name heuristic
\* matches it is exactly one unknown hint (read on the lists made of the
\* prop-name strategy alone, where no other hint can come in).
C19_OneUnknownPerList ==
  Called("buildAppContext") =>
    LET strategies == callInput.args[2].dataSourceStrategies
        result == callOutput[1].dataSources
    IN /\ Len(result) > 0
       /\ OnlyBasic(strategies) /\ NoHeuristicMatches(callInput.args[1])
            => result = <<UnknownHint>>

\* C19 (amended): dataSources is not empty; it is the concatenation of the
\* strategies' hints in order when that is not empty and one unknown hint
\* otherwise; with the basic strategy alone and no prop-name heuristic
\* matching it is exactly one unknown hint, which the strategy itself
\* returns (each further basic strategy adds one more).
C19_ConcatenationOrUnknown ==
  Called("buildAppContext") =>
    LET strategies == callInput.args[2].dataSourceStrategies
        reactSlice == callInput.args[1]
        ownerProps == IF reactSlice.exists THEN reactSlice.ownerProps
                      ELSE [exists |-> FALSE, names |-> <<>>]
        hintsOf(i) == detectDataSources(strategies[i], ownerProps)
        lengths == [i \in 1..Len(strategies) |-> Len(hintsOf(i))]
        total == Len(collectDataSources(strategies, ownerProps))
        result == callOutput[1].dataSources
    IN /\ Len(result) > 0
       /\ total = 0 => result = <<UnknownHint>>
       /\ total > 0 =>
            /\ Len(result) = total
            /\ \A i \in 1..Len(strategies) : \A k \in 1..lengths[i] :
                 \E at \in 1..Len(result) :
                   /\ result[at] = hintsOf(i)[k]
                   /\ at = k + Len(collectDataSources(SubSeq(strategies, 1, i - 1), ownerProps))
       /\ strategies = <<"basic-data-props">> /\ NoHeuristicMatches(reactSlice)
            => result = <<UnknownHint>>
       /\ OnlyBasic(strategies) /\ strategies # <<>> /\ NoHeuristicMatches(reactSlice)
            => result = [i \in 1..Len(strategies) |-> UnknownHint]

\* Two basic strategies and props that match no heuristic: two unknown hints.
C19_Witness ==
  /\ Called("buildAppContext")
  /\ callInput.args[2].dataSourceStrategies = <<"basic-data-props", "basic-data-props">>
  /\ callInput.args[1].exists /\ callInput.args[1].ownerProps.exists
  /\ callInput.args[1].ownerProps.names = <<Chars("data"), Chars("onClick")>>
  /\ callOutput[1].dataSources = <<UnknownHint, UnknownHint>>

\* C20 (as stated): the result is that of the first framework strategy
\* whose detect returns non-null, no strategy after that one has its detect
\* invoked, and when every strategy returns null the framework is unknown
\* with null route guesses.
C20_FirstNonNullStops ==
  Called("buildAppContext") =>
    LET strategies == callInput.args[2].frameworkStrategies
        reactSlice == callInput.args[1]
        answering == {i \in 1..Len(strategies) :
                        ~detectFramework(strategies[i], reactSlice).isNull}
        first == CHOOSE i \in answering : \A j \in answering : i <= j
        out == callOutput[1]
    IN IF answering = {}
       THEN /\ out.framework = "unknown"
            /\ out.routePatternGuess = "null" /\ out.routeParamsGuess = "null"
            /\ out.frameworkDetectCalls = [i \in 1..Len(strategies) |-> i]
       ELSE /\ out.framework = detectFramework(strategies[first], reactSlice).framework
            /\ out.routePatternGuess
                 = detectFramework(strategies[first], reactSlice).routePatternGuess
            /\ out.frameworkDetectCalls = [i \in 1..first |-> i]

(* ------------------------------------------------------------------ *)
(* InspectorEngine: introspection health and getElementContext         *)
(* ------------------------------------------------------------------ *)

\* The characters of the string literals of the inspector and the framework
\* strategies; any other literal is looked up in Chars.
Text(s) ==
  CASE
    s = "/users/" -> <<"/", "u", "s", "e", "r", "s", "/">>
    []
    s = "/node_modules/react-router/index.js" -> <<"/", "n", "o", "d", "e", "_", "m", "o", "d", "u", "l", "e", "s", "/", "r", "e", "a", "c", "t", "-", "r", "o", "u", "t", "e", "r", "/", "i", "n", "d", "e", "x", ".", "j", "s">>
    []
    s = "/src/Card.tsx" -> <<"/", "s", "r", "c", "/", "C", "a", "r", "d", ".", "t", "s", "x">>
    []
    s = "/src/app/layout.tsx" -> <<"/", "s", "r", "c", "/", "a", "p", "p", "/", "l", "a", "y", "o", "u", "t", ".", "t", "s", "x">>
    []
    s = "/pages/index.jsx" -> <<"/", "p", "a", "g", "e", "s", "/", "i", "n", "d", "e", "x", ".", "j", "s", "x">>
    []
    s = "/app/users/page.tsx" -> <<"/", "a", "p", "p", "/", "u", "s", "e", "r", "s", "/", "p", "a", "g", "e", ".", "t", "s", "x">>
    []
    s = "a1" -> <<"a", "1">>
    []
    s = "Users" -> <<"U", "s", "e", "r", "s">>
    []
    s = "users" -> <<"u", "s", "e", "r", "s">>
    []
    s = "en" -> <<"e", "n">>
    []
    s = "123" -> <<"1", "2", "3">>
    []
    s = "42" -> <<"4", "2">>
    []
    s = "param" -> <<"p", "a", "r", "a", "m">>
    []
    s = "]" -> <<"]">>
    []
    s = "[param" -> <<"[", "p", "a", "r", "a", "m">>
    []
    s = "[id" -> <<"[", "i", "d">>
    []
    s = "/index.jsx" -> <<"/", "i", "n", "d", "e", "x", ".", "j", "s", "x">>
    []
    s = "/index.tsx" -> <<"/", "i", "n", "d", "e", "x", ".", "t", "s", "x">>
    []
    s = "/page.jsx" -> <<"/", "p", "a", "g", "e", ".", "j", "s", "x">>
    []
    s = "/page.tsx" -> <<"/", "p", "a", "g", "e", ".", "t", "s", "x">>
    []
    s = "/_layout.jsx" -> <<"/", "_", "l", "a", "y", "o", "u", "t", ".", "j", "s", "x">>
    []
    s = "/_layout.tsx" -> <<"/", "_", "l", "a", "y", "o", "u", "t", ".", "t", "s", "x">>
    []
    s = "/layout.jsx" -> <<"/", "l", "a", "y", "o", "u", "t", ".", "j", "s", "x">>
    []
    s = "/layout.tsx" -> <<"/", "l", "a", "y", "o", "u", "t", ".", "t", "s", "x">>
    []
    s = "remix" -> <<"r", "e", "m", "i", "x">>
    []
    s = "react-router" -> <<"r", "e", "a", "c", "t", "-", "r", "o", "u", "t", "e", "r">>
    []
    s = "/pages/" -> <<"/", "p", "a", "g", "e", "s", "/">>
    []
    s = "/app/" -> <<"/", "a", "p", "p", "/">>
    []
    s = "#save-btn" -> <<"#", "s", "a", "v", "e", "-", "b", "t", "n">>
    []
    s = "onSubmit" -> <<"o", "n", "S", "u", "b", "m", "i", "t">>
    []
    s = "App" -> <<"A", "p", "p">>
    []
    s = "A" -> <<"A">>
    []
    s = "Save" -> <<"S", "a", "v", "e">>
    []
    s = ":nth-of-type(" -> <<":", "n", "t", "h", "-", "o", "f", "-", "t", "y", "p", "e", "(">>
    []
    s = "[data-testid=" -> <<"[", "d", "a", "t", "a", "-", "t", "e", "s", "t", "i", "d", "=">>
    []
    s = "SaveBar" -> <<"S", "a", "v", "e", "B", "a", "r">>
    []
    s = "DIV" -> <<"D", "I", "V">>
    []
    s = "BUTTON" -> <<"B", "U", "T", "T", "O", "N">>
    []
    s = "card" -> <<"c", "a", "r", "d">>
    []
    s = "save-btn" -> <<"s", "a", "v", "e", "-", "b", "t", "n">>
    []
    s = "button" -> <<"b", "u", "t", "t", "o", "n">>
    []
    s = "aria-label" -> <<"a", "r", "i", "a", "-", "l", "a", "b", "e", "l">>
    []
    s = "testid" -> <<"t", "e", "s", "t", "i", "d">>
    []
    s = "data-testid" -> <<"d", "a", "t", "a", "-", "t", "e", "s", "t", "i", "d">>
    []
    s = "color" -> <<"c", "o", "l", "o", "r">>
    []
    s = "tone" -> <<"t", "o", "n", "e">>
    []
    s = "intent" -> <<"i", "n", "t", "e", "n", "t">>
    []
    s = "size" -> <<"s", "i", "z", "e">>
    []
    s = "variant" -> <<"v", "a", "r", "i", "a", "n", "t">>
    []
    s = "text" -> <<"t", "e", "x", "t">>
    []
    s = "placeholder" -> <<"p", "l", "a", "c", "e", "h", "o", "l", "d", "e", "r">>
    []
    s = "title" -> <<"t", "i", "t", "l", "e">>
    []
    s = "label" -> <<"l", "a", "b", "e", "l">>
    []
    OTHER -> Chars(s)

\* What the introspection library (bippy) answers during one capture:
\* hasRDTHook() and isInstrumentationActive(); what detectReactBuildType
\* answers for the renderer getAnyRenderer() finds ("none": there is no
\* renderer, "throws": the call throws); getFiberFromHostInstance(element) at
\* each of its three call sites, in the order of the calls ("fiber", "null",
\* "throws"); getFiberStack(latest), nearest fiber first; and how getSource
\* settles for a fiber ("resolved", "rejects").
Capability(installed, active, renderer, lookups, stack, sources) ==
  [installed |-> installed, active |-> active, renderer |-> renderer, lookups |-> lookups,
   stack |-> stack, sources |-> sources]

RendererAnswers == {"none", "development", "production", "profiling", "throws"}
LookupAnswers == {"fiber", "null", "throws"}

\* The call sites of getFiberFromHostInstance.
AtHealth == 1
AtSlice == 2
AtBehavior == 3

\* A fiber: its display name, whether it is a composite fiber, its props in
\* traversal order, and the file name getSource reports for it.
Fiber(displayName, composite, props, fileName) ==
  [displayName |-> displayName, composite |-> composite, props |-> props,
   fileName |-> fileName]

HostFiber ==
  Fiber("button", FALSE,
        <<Entry(Text("onClick"), VFunction), Entry(Text("children"), VString(Text("Save")))>>,
        "src/SaveBar.tsx")
OwnerFiber ==
  Fiber("SaveBar", TRUE,
        <<Entry(Text("data"), VObject(<<>>)), Entry(Text("isLoading"), VBoolean(FALSE)),
          Entry(Text("error"), VNull), Entry(Text("onSubmit"), VFunction),
          Entry(Text("title"), VNull)>>,
        "src/SaveBar.tsx")
OuterFiber == Fiber("App", TRUE, <<>>, "")

\* try { detectReactBuildType(renderer) } catch { return "unknown" }
detectReactBuildTypeSafe(cap) ==
  IF cap.renderer = "none" THEN "unknown"
  ELSE IF cap.renderer = "throws" THEN "unknown"
  ELSE IF cap.renderer = "development" \/ cap.renderer = "production" THEN cap.renderer
  ELSE "unknown"

\* A ReactDebugInfo; a null message is written "null".
ReactDebugInfo(buildType, inspectorStatus, message) ==
  [buildType |-> buildType, inspectorStatus |-> inspectorStatus, message |-> message]

\* Variant of getReactDebugInfoForElement: the fiber lookup comes before the
\* checks of the hook.
getReactDebugInfoLookupFirst(cap) ==
  LET buildType == detectReactBuildTypeSafe(cap)
  IN IF cap.lookups[AtHealth] = "throws"
     THEN ReactDebugInfo(buildType, "error",
            "Failed to access React fiber for this element. Instrumentation may be incompatible.")
     ELSE IF cap.lookups[AtHealth] = "null"
     THEN ReactDebugInfo(buildType, "no-fiber",
            "No React fiber associated with this element (non-React DOM).")
     ELSE IF ~cap.installed
     THEN ReactDebugInfo(buildType, "no-hook",
            "React DevTools hook is not installed. Import 'bippy' before React to enable React metadata.")
     ELSE IF ~cap.active
     THEN ReactDebugInfo(buildType, "inactive",
            "React instrumentation is not active yet. Ensure 'bippy' is imported before React renders.")
     ELSE ReactDebugInfo(buildType, "ok", "null")

getReactDebugInfoForElement(cap) ==
  LET buildType == detectReactBuildTypeSafe(cap)
  IN IF ~cap.installed
     THEN ReactDebugInfo(buildType, "no-hook",
            "React DevTools hook is not installed. Import 'bippy' before React to enable React metadata.")
     ELSE IF ~cap.active
     THEN ReactDebugInfo(buildType, "inactive",
            "React instrumentation is not active yet. Ensure 'bippy' is imported before React renders.")
     ELSE IF cap.lookups[AtHealth] = "throws"
     THEN ReactDebugInfo(buildType, "error",
            "Failed to access React fiber for this element. Instrumentation may be incompatible.")
     ELSE IF cap.lookups[AtHealth] = "null"
     THEN ReactDebugInfo(buildType, "no-fiber",
            "No React fiber associated with this element (non-React DOM).")
     ELSE ReactDebugInfo(buildType, "ok", "null")

\* A SourceLocation (line and column are not modelled), or NullSource.
NullSource == [isNull |-> TRUE, fileName |-> "", confidence |-> ""]
toSourceLocation(fileName, buildType) ==
  IF fileName = "" THEN NullSource
  ELSE [isNull |-> FALSE, fileName |-> fileName,
        confidence |-> IF buildType = "development" THEN "high"
                       ELSE IF buildType = "production" THEN "low" ELSE "medium"]

\* classifyPropHighlight: the reason, or "null"
classifyPropHighlight(name, value) ==
  LET lower == ToLowerCase(name)
  IN IF lower \in {Text("label"), Text("title"), Text("placeholder"), Text("text"),
                   Text("children")}
     THEN "text"
     ELSE IF lower \in {Text("variant"), Text("size"), Text("intent"), Text("tone"),
                        Text("color"), Text("kind")}
     THEN "design"
     ELSE IF lower \in {Text("data-testid"), Text("testid")} THEN "test-id"
     ELSE IF lower = Text("aria-label") THEN "aria-label"
     ELSE IF value = VNull THEN "null"
     ELSE "other"

MaxHighlighted == 12

\* snapshotProps: the props snapshot, with the names of the highlighted
\* props in place of the highlights.
snapshotProps(fiber) ==
  LET reason(i) ==
        classifyPropHighlight(fiber.props[i].k, toSerializableValue(fiber.props[i].v, 0))
      highlighted == SelectSeq([i \in 1..Len(fiber.props) |-> i], LAMBDA i : reason(i) # "null")
      limited == IF Len(highlighted) > MaxHighlighted
                 THEN SubSeq(highlighted, 1, MaxHighlighted) ELSE highlighted
  IN [exists |-> TRUE, names |-> [j \in 1..Len(limited) |-> fiber.props[limited[j]].k],
      totalProps |-> Len(fiber.props)]

\* react: null
NoSlice == [exists |-> FALSE, ownerProps |-> [exists |-> FALSE, names |-> <<>>]]

\* Variant of buildReactTreeSlice: the health status is not consulted.
buildReactTreeSliceIgnoresHealth(cap, config, debugInfo) ==
  IF config.reactInspectorMode = "off" THEN NoSlice
  ELSE IF cap.lookups[AtSlice] # "fiber" THEN NoSlice
  ELSE IF Len(cap.stack) = 0 THEN NoSlice
  ELSE [exists |-> TRUE, ownerProps |-> [exists |-> FALSE, names |-> <<>>],
        stack |-> <<>>, ownerIndex |-> 0 - 1]

\* buildReactTreeSlice (the snapshots of the owner's state and contexts are
\* left out). ownerIndex is 0-based, -1 for null.
buildReactTreeSlice(cap, config, debugInfo) ==
  IF config.reactInspectorMode = "off" THEN NoSlice
  ELSE IF debugInfo.inspectorStatus # "ok" THEN NoSlice
  ELSE IF cap.lookups[AtSlice] = "throws" THEN NoSlice
  ELSE IF cap.lookups[AtSlice] = "null" THEN NoSlice
  ELSE IF Len(cap.stack) = 0 THEN NoSlice
  ELSE LET takenFibers == SubSeq(cap.stack, 1, Min(Len(cap.stack), config.maxReactStackFrames))
           source(i) == IF cap.sources = "resolved"
                        THEN toSourceLocation(takenFibers[i].fileName, debugInfo.buildType)
                        ELSE NullSource
           stack == [i \in 1..Len(takenFibers) |->
                       [displayName |-> takenFibers[i].displayName,
                        isHost |-> ~takenFibers[i].composite,
                        source |-> source(i)]]
           composites == {i \in 1..Len(takenFibers) : takenFibers[i].composite}
           owner == IF composites = {} THEN 0
                    ELSE CHOOSE i \in composites : \A j \in composites : i <= j
       IN [exists |-> TRUE,
           ownerProps |-> IF owner = 0 THEN [exists |-> FALSE, names |-> <<>>]
                          ELSE snapshotProps(takenFibers[owner]),
           stack |-> stack,
           ownerIndex |-> owner - 1]

\* name.startsWith("on") && typeof next === "function"
IsHandlerProp(entry) ==
  /\ Len(entry.k) >= 2 /\ SubSeq(entry.k, 1, 2) = <<"o", "n">>
  /\ entry.v.t = "function"

\* recordHandlersFromFiber: the handler props not seen yet are appended.
recordHandlersFromFiber(handlers, props, declaredOnComponent) ==
  LET names == SelectSeq([i \in 1..Len(props) |-> props[i]], IsHandlerProp)
      fresh == SelectSeq(names, LAMBDA e :
                 ~\E h \in 1..Len(handlers) : handlers[h].propName = e.k)
  IN handlers \o [i \in 1..Len(fresh) |->
                    [propName |-> fresh[i].k, declaredOnComponent |-> declaredOnComponent]]

\* buildBehaviorContext: a lookup that throws is caught and counts as no
\* fiber.
buildBehaviorContext(cap, reactSlice) ==
  LET hostFiber == cap.lookups[AtBehavior] = "fiber"
      hostProps == IF cap.stack = <<>> THEN <<>> ELSE cap.stack[1].props
      componentName == IF reactSlice.exists /\ Len(reactSlice.stack) > 0
                       THEN reactSlice.stack[1].displayName ELSE "null"
      fromHost == recordHandlersFromFiber(<<>>, hostProps, componentName)
      withOwner ==
        IF reactSlice.exists /\ reactSlice.ownerIndex >= 0
             /\ reactSlice.ownerIndex < Len(cap.stack)
        THEN recordHandlersFromFiber(fromHost, cap.stack[reactSlice.ownerIndex + 1].props,
                                     reactSlice.stack[reactSlice.ownerIndex + 1].displayName)
        ELSE fromHost
      handlers == IF hostFiber THEN withOwner ELSE <<>>
  IN [inferenceLevel |-> IF Len(handlers) = 0 THEN "none" ELSE "prop-name-only",
      handlers |-> handlers]

\* An element of the page: tagName, id, the data-testid attribute (absent:
\* hasTestId = FALSE), the class list, the role attribute ("null": absent),
\* its position among the siblings of its tag, and the computed cursor.
DomElement(tagName, id, hasTestId, testId, classes, role, nthOfType, cursor) ==
  [tagName |-> tagName, id |-> id, hasTestId |-> hasTestId, testId |-> testId,
   classes |-> classes, role |-> role, nthOfType |-> nthOfType, cursor |-> cursor]

\* CSS.escape on identifiers that do not start with a digit: letters,
\* digits, "-" and "_" are kept, any other character gets a backslash.
IsIdentChar(c) ==
  \/ charCodeAt(c) >= 48 /\ charCodeAt(c) <= 57
  \/ charCodeAt(c) >= 65 /\ charCodeAt(c) <= 90
  \/ charCodeAt(c) >= 97 /\ charCodeAt(c) <= 122
  \/ c = "-" \/ c = "_"
RECURSIVE CssEscape(_)
CssEscape(chars) ==
  IF chars = <<>> THEN <<>>
  ELSE (IF IsIdentChar(Head(chars)) THEN <<Head(chars)>> ELSE <<"\\", Head(chars)>>)
         \o CssEscape(Tail(chars))

\* getDataTestId: the trimmed attribute, <<>> for null
getDataTestId(el) == IF el.hasTestId THEN Trim(el.testId) ELSE <<>>

RECURSIVE ClassChain(_)
ClassChain(classes) ==
  IF classes = <<>> THEN <<>> ELSE <<".">> \o CssEscape(Head(classes)) \o ClassChain(Tail(classes))

buildPreferredSelector(el) ==
  LET baseTag == ToLowerCase(el.tagName)
      classes == SelectSeq(el.classes, LAMBDA cls : Len(cls) > 0)
  IN IF Len(el.id) > 0 /\ ~StringIncludes(el.id, <<" ">>) THEN <<"#">> \o CssEscape(el.id)
     ELSE IF getDataTestId(el) # <<>>
     THEN Text("[data-testid=") \o <<"\"">> \o CssEscape(getDataTestId(el)) \o <<"\"", "]">>
     ELSE IF Len(classes) > 0 THEN baseTag \o ClassChain(classes)
     ELSE IF el.nthOfType = 0 THEN baseTag
     ELSE baseTag \o Text(":nth-of-type(") \o NumberToString(el.nthOfType) \o <<")">>

buildSelectionInfo(el, reactSlice) ==
  [tag |-> ToLowerCase(el.tagName),
   componentDisplayName |-> IF reactSlice.exists /\ Len(reactSlice.stack) > 0
                            THEN reactSlice.stack[1].displayName ELSE "null",
   nearestSource |-> IF reactSlice.exists /\ Len(reactSlice.stack) > 0
                     THEN reactSlice.stack[1].source ELSE NullSource]

buildDomNeighborhood(el) == [selectors |-> [preferred |-> buildPreferredSelector(el)]]

buildStyleFrame(el) ==
  [clickable |-> \/ el.cursor = "pointer"
                 \/ el.tagName = Text("BUTTON") \/ el.tagName = Text("A")
                 \/ el.role = "button" \/ el.role = "link"]

\* The facets every ElementContextV2 carries.
MandatoryFacets == {"selection", "dom", "reactDebug", "styling", "behavior", "app"}

\* DefaultInspectorEngine.getElementContext: how the promise settles, and
\* the context it resolves with.
getElementContext(el, config, cap) ==
  LET reactDebug == getReactDebugInfoForElement(cap)
      reactSlice == IF config.reactInspectorMode = "off" THEN NoSlice
                    ELSE buildReactTreeSlice(cap, config, reactDebug)
  IN [settled |-> "resolved",
      context |->
        [version |-> 2,
         selection |-> buildSelectionInfo(el, reactSlice),
         dom |-> buildDomNeighborhood(el),
         react |-> reactSlice,
         reactDebug |-> reactDebug,
         styling |-> buildStyleFrame(el),
         behavior |-> buildBehaviorContext(cap, reactSlice),
         app |-> buildAppContext(reactSlice, config)]]

\* The probed captures: the save button of the spec's scenario and a plain
\* div; every answer of the library; stacks of up to three fibers; the three
\* inspector modes and frame limits up to MaxFramesProbed, with the default
\* heuristics.
MaxFramesProbed == 2
ElementInputs ==
  {DomElement(Text("BUTTON"), Text("save-btn"), FALSE, <<>>, <<>>, "null", 1, "default"),
   DomElement(Text("DIV"), <<>>, FALSE, <<>>, <<Text("card")>>, "null", 2, "pointer")}
StackInputs == {<<>>, <<HostFiber>>, <<HostFiber, OwnerFiber, OuterFiber>>}
CapabilityInputs ==
  {Capability(installed, active, renderer, lookups, stack, sources) :
     installed \in BOOLEAN, active \in BOOLEAN, renderer \in RendererAnswers,
     lookups \in [AtHealth..AtBehavior -> LookupAnswers], stack \in StackInputs,
     sources \in {"resolved", "rejects"}}
InspectorConfigInputs ==
  {[reactInspectorMode |-> mode, maxReactStackFrames |-> frames,
    frameworkStrategies |-> <<"next-app-with-react", "generic">>,
    dataSourceStrategies |-> <<"basic-data-props">>] :
     mode \in {"best-effort", "required", "off"}, frames \in 1..MaxFramesProbed}

CallGetElementContext ==
  /\ callInput.fn = "getElementContext"
  /\ callOutput = <<>>
  /\ callOutput' =
       <<getElementContext(callInput.args[1], callInput.args[2], callInput.args[3])>>
  /\ CallUnchanged

InitInspect ==
  \E el \in ElementInputs, config \in InspectorConfigInputs, cap \in CapabilityInputs :
    InitCall("getElementContext", <<el, config, cap>>)

NextInspect == CallGetElementContext

SpecInspect == InitInspect /\ [][NextInspect]_vars

\* The status the health chain prescribes for what the library answers.
HealthChain(cap) ==
  IF ~cap.installed THEN "no-hook"
  ELSE IF ~cap.active THEN "inactive"
  ELSE IF cap.lookups[AtHealth] = "throws" THEN "error"
  ELSE IF cap.lookups[AtHealth] = "null" THEN "no-fiber"
  ELSE "ok"

HeldBy(fin, w) == fin.workers[w] + 1
Held(fin) == {HeldBy(fin, w) : w \in {v \in 1..Len(fin.workers) : fin.workers[v] # WorkerDone}}

\* The finalization of the batch scenario after the step: the one still
\* running, or the one the step ended.
FinAfterStep == IF fins' # <<>> THEN fins'[1] ELSE report'.fin

\* Every index is unclaimed, held by exactly one worker whose capture is
\* pending, or settled with its result stored; the claimed indexes are those
\* below nextIndex; each capture was counted once; and when the workers
\* have stopped every index has been claimed.
ClaimedOnce(fin) ==
  /\ \A v, w \in 1..Len(fin.workers) :
       fin.workers[v] # WorkerDone /\ fin.workers[v] = fin.workers[w] => v = w
  /\ fin.nextIndex <= Len(fin.items)
  /\ \A i \in 1..Len(fin.items) :
       /\ i \in Held(fin) => i <= fin.nextIndex /\ fin.captured[i] = "pending"
       /\ i <= fin.nextIndex /\ i \notin Held(fin) =>
            fin.captured[i] # "pending" /\ fin.results[i] # Unset
       /\ i > fin.nextIndex =>
            fin.captured[i] = "pending" /\ fin.results[i] = Unset /\ i \notin Held(fin)
  /\ fin.completed = Cardinality({i \in 1..Len(fin.items) : fin.captured[i] # "pending"})
  /\ AllWorkersDone(fin) => fin.nextIndex = Len(fin.items)

\* A worker gives up the index it holds only in the step in which the
\* capture of that index settles, and then claims the index nextIndex
\* stands at, moving nextIndex by one, or stops when none is left; nextIndex
\* moves in no other way, and a settled capture never changes again.
ClaimStep ==
  Len(fins) = 1 /\ fins[1].pc = "capturing" =>
    LET before == fins[1]
        after == FinAfterStep
        moved == {w \in 1..Len(before.workers) : after.workers[w] # before.workers[w]}
    IN /\ after.items = before.items
       /\ \A w \in moved :
            /\ before.workers[w] # WorkerDone
            /\ before.captured[HeldBy(before, w)] = "pending"
            /\ after.captured[HeldBy(before, w)] # "pending"
            /\ IF before.nextIndex < Len(before.items)
               THEN after.workers[w] = before.nextIndex
                      /\ after.nextIndex = before.nextIndex + 1
               ELSE after.workers[w] = WorkerDone /\ after.nextIndex = before.nextIndex
       /\ Cardinality(moved) <= 1
       /\ moved = {} => after.nextIndex = before.nextIndex
       /\ \A i \in 1..Len(before.items) :
            before.captured[i] # "pending" =>
              after.captured[i] = before.captured[i] /\ after.results[i] = before.results[i]

\* C23: within one finalization every index of the connected elements is
\* claimed by exactly one worker, once: no element is captured twice and
\* none is skipped, whatever the number of elements and the order in which
\* the captures of the two workers settle, and a worker claims its next
\* index only after its current capture has settled.
C23_EachIndexClaimedOnce ==
  /\ [](\A fin \in RunningFins \cup EndedFins : ClaimedOnce(fin))
  /\ [][ClaimStep]_vars

\* Three elements: the second worker's capture settled first and it has
\* claimed the third index, while the first worker still waits for the first.
C23_Witness ==
  /\ Len(fins) = 1
  /\ fins[1].pc = "capturing"
  /\ Len(fins[1].items) = 3
  /\ fins[1].workers = <<0, 2>>
  /\ fins[1].captured = <<"pending", "failed", "pending">>
  /\ fins[1].nextIndex = 3

(* ------------------------------------------------------------------ *)
(* Termination of a finalization                                       *)
(* ------------------------------------------------------------------ *)

\* Settling: the three-element page, selections made by clicking after
\* startSelectionSession and finalized with Enter, while the page removes
\* elements; every getElementContext call and every sendContext call that
\* has started settles in the end (weak fairness of the settling steps),
\* while nothing obliges the user to act.
NextSettling ==
  \/ StartSelectionSession(NullInstruction)
  \/ \E t \in MouseTargets, m \in BOOLEAN : Click(t, 0, m)
  \/ KeyEscape
  \/ KeyEnter
  \/ \E e \in Detachable : Detach(e)
  \/ \E f \in FinSlots, w \in 1..CaptureConcurrency, ok \in BOOLEAN : CaptureSettles(f, w, ok)
  \/ \E f \in FinSlots, r \in BOOLEAN : SendSettles(f, r, FALSE, FALSE)

SettlingFairness ==
  /\ \A f \in FinSlots, w \in 1..CaptureConcurrency :
       WF_vars(\E ok \in BOOLEAN : CaptureSettles(f, w, ok))
  /\ \A f \in FinSlots : WF_vars(\E r \in BOOLEAN : SendSettles(f, r, FALSE, FALSE))

SpecSettling == InitBatch /\ [][NextSettling]_vars /\ SettlingFairness

\* Unclaimed elements are left and every worker has stopped.
WorkersStoppedEarly(fin) ==
  /\ fin.workers # <<>>
  /\ AllWorkersDone(fin)
  /\ fin.nextIndex < Len(fin.items)

\* C24: when every capture and every sendContext settles in the end, every
\* finalization ends and the machine is back in idle (not selecting, not
\* sending); and in no reachable state are elements left unclaimed while
\* both workers have stopped.
C24_FinalizationEnds ==
  /\ (fins # <<>>) ~> (fins = <<>> /\ report.kind = "ended" /\ ~selecting /\ ~sending)
  /\ [](\A fin \in RunningFins \cup EndedFins : ~WorkersStoppedEarly(fin))

\* A finalization of three elements has ended after a failed capture and a
\* rejected sendContext, and the machine is idle.
C24_Witness ==
  /\ fins = <<>>
  /\ report.kind = "ended"
  /\ Len(report.fin.items) = 3
  /\ report.fin.failed = 1
  /\ report.fin.sendOutcome = "rejected"
  /\ ~selecting /\ ~sending /\ ~listening

(* ------------------------------------------------------------------ *)
(* nextLikeFrameworkStrategy: framework and route guesses              *)
(* ------------------------------------------------------------------ *)

\* String.prototype.endsWith
StringEndsWith(chars, part) ==
  /\ Len(part) <= Len(chars)
  /\ SubSeq(chars, Len(chars) - Len(part) + 1, Len(chars)) = part

inferFrameworkFromPath(path) ==
  IF StringIncludes(path, Text("/app/")) THEN "next-app"
  ELSE IF StringIncludes(path, Text("/pages/")) THEN "next-pages"
  ELSE IF StringIncludes(path, Text("react-router")) THEN "react-router"
  ELSE IF StringIncludes(path, Text("remix")) THEN "remix"
  ELSE "unknown"

isLayoutLikeFromPath(path) ==
  \/ StringEndsWith(path, Text("/layout.tsx"))
  \/ StringEndsWith(path, Text("/layout.jsx"))
  \/ StringEndsWith(path, Text("/_layout.tsx"))
  \/ StringEndsWith(path, Text("/_layout.jsx"))

isPageLikeFromPath(path) ==
  \/ StringEndsWith(path, Text("/page.tsx"))
  \/ StringEndsWith(path, Text("/page.jsx"))
  \/ StringEndsWith(path, Text("/index.tsx"))
  \/ StringEndsWith(path, Text("/index.jsx"))

\* A frame of the React slice's stack, with the file name of its source or
\* without a source.
StackFrame(hasSource, fileName) == [hasSource |-> hasSource, fileName |-> fileName]

\* input.pathname.split("/").filter((s) => s.length > 0)
RECURSIVE PathSegments(_)
PathSegments(pathname) ==
  IF pathname = <<>> THEN <<>>
  ELSE IF Head(pathname) = "/" THEN PathSegments(Tail(pathname))
  ELSE LET slashes == {i \in 1..Len(pathname) : pathname[i] = "/"}
           end == IF slashes = {} THEN Len(pathname) + 1
                  ELSE CHOOSE i \in slashes : \A j \in slashes : i <= j
       IN <<SubSeq(pathname, 1, end - 1)>>
            \o PathSegments(SubSeq(pathname, end, Len(pathname)))

\* /^\d+$/.test(seg)
IsDigits(seg) ==
  /\ seg # <<>>
  /\ \A i \in 1..Len(seg) : charCodeAt(seg[i]) >= 48 /\ charCodeAt(seg[i]) <= 57

\* The body of segments.forEach with the literal branch taken from two
\* characters on.
guessSegmentFromTwoChars(seg, idx) ==
  IF IsDigits(seg)
  THEN [pattern |-> Text("[id") \o NumberToString(idx) \o Text("]"),
        isParam |-> TRUE, key |-> Text("id") \o NumberToString(idx), value |-> seg]
  ELSE IF Len(seg) >= 2 /\ seg = ToLowerCase(seg)
  THEN [pattern |-> seg, isParam |-> FALSE, key |-> <<>>, value |-> seg]
  ELSE [pattern |-> Text("[param") \o NumberToString(idx) \o Text("]"),
        isParam |-> TRUE, key |-> Text("param") \o NumberToString(idx), value |-> seg]

\* The body of segments.forEach for the segment at idx (counted from 0): the
\* pattern segment pushed, and the key written to routeParamsGuess if one is.
guessSegment(seg, idx) ==
  IF IsDigits(seg)
  THEN [pattern |-> Text("[id") \o NumberToString(idx) \o Text("]"),
        isParam |-> TRUE, key |-> Text("id") \o NumberToString(idx), value |-> seg]
  ELSE IF Len(seg) > 2 /\ seg = ToLowerCase(seg)
  THEN [pattern |-> seg, isParam |-> FALSE, key |-> <<>>, value |-> seg]
  ELSE [pattern |-> Text("[param") \o NumberToString(idx) \o Text("]"),
        isParam |-> TRUE, key |-> Text("param") \o NumberToString(idx), value |-> seg]

\* A route pattern guess and a route params guess, each possibly null; the
\* params are the entries of the object in insertion order.
RoutePattern(chars) == [exists |-> TRUE, chars |-> chars]
NullPattern == [exists |-> FALSE, chars |-> <<>>]
RouteParams(entries) == [exists |-> TRUE, entries |-> entries]
NullParams == [exists |-> FALSE, entries |-> <<>>]

\* The result of nextLikeFrameworkStrategy.detect, or NullDetection.
Detection(framework, routePatternGuess, routeParamsGuess, pageComponent, layoutComponents) ==
  [isNull |-> FALSE, framework |-> framework, routePatternGuess |-> routePatternGuess,
   routeParamsGuess |-> routeParamsGuess, pageComponent |-> pageComponent,
   layoutComponents |-> layoutComponents]
NullDetection ==
  [Detection("unknown", NullPattern, NullParams, <<>>, <<>>) EXCEPT !.isNull = TRUE]

\* nextLikeFrameworkStrategy.detect(input), for input.reactSlice (present or
\* not, with the frames of its stack) and input.pathname. pageComponent is
\* the empty sequence for null, else the one source.
nextLikeDetect(hasSlice, stack, pathname) ==
  LET sourced == SelectSeq(stack, LAMBDA frame : frame.hasSource)
      known == {i \in 1..Len(sourced) : inferFrameworkFromPath(sourced[i].fileName) # "unknown"}
      framework ==
        IF known = {} THEN "unknown"
        ELSE inferFrameworkFromPath(
               sourced[CHOOSE i \in known : \A j \in known : i <= j].fileName)
      layouts == SelectSeq(sourced, LAMBDA frame : isLayoutLikeFromPath(frame.fileName))
      pages == SelectSeq(sourced, LAMBDA frame : isPageLikeFromPath(frame.fileName))
      pageComponent == IF pages = <<>> THEN <<>> ELSE <<pages[1].fileName>>
      layoutComponents == [i \in 1..Len(layouts) |-> layouts[i].fileName]
      segments == PathSegments(pathname)
      guesses == [i \in 1..Len(segments) |-> guessSegment(segments[i], i - 1)]
      params == SelectSeq(guesses, LAMBDA guess : guess.isParam)
      isNext == framework = "next-app" \/ framework = "next-pages"
      routeParamsGuess ==
        IF isNext /\ params # <<>>
        THEN RouteParams([i \in 1..Len(params) |->
                            [key |-> params[i].key, value |-> params[i].value]])
        ELSE NullParams
      routePatternGuess ==
        IF isNext
        THEN RoutePattern(Text("/")
                            \o Join([i \in 1..Len(guesses) |-> guesses[i].pattern], Text("/")))
        ELSE NullPattern
  IN IF ~hasSlice THEN NullDetection
     ELSE IF framework = "unknown" /\ pageComponent = <<>> /\ layoutComponents = <<>>
     THEN NullDetection
     ELSE Detection(framework, routePatternGuess, routeParamsGuess,
                    pageComponent, layoutComponents)

\* The inputs probed: pathnames of up to MaxSegments segments, with or
\* without a trailing slash, and stacks of up to MaxRouteFrames frames.
MaxSegments == 3
MaxRouteFrames == 2
SegmentInputs ==
  {Text("42"), Text("123"), Text("en"), Text("a1"), Text("users"), Text("Users")}
PathnameInputs ==
  {Text("/") \o Join(segs, Text("/")) \o tail :
     segs \in UNION {[1..n -> SegmentInputs] : n \in 0..MaxSegments},
     tail \in {<<>>, Text("/")}}
FrameInputs ==
  {StackFrame(FALSE, <<>>)}
    \cup {StackFrame(TRUE, Text(path)) :
            path \in {"/app/users/page.tsx", "/pages/index.jsx", "/src/app/layout.tsx",
                      "/src/Card.tsx", "/node_modules/react-router/index.js"}}
RouteStackInputs == UNION {[1..n -> FrameInputs] : n \in 0..MaxRouteFrames}

CallNextLikeDetect ==
  /\ callInput.fn = "nextLikeFrameworkStrategy.detect"
  /\ callOutput = <<>>
  /\ callOutput' =
       <<nextLikeDetect(callInput.args[1], callInput.args[2], callInput.args[3])>>
  /\ CallUnchanged

InitRoute ==
  \E hasSlice \in BOOLEAN, stack \in RouteStackInputs, pathname \in PathnameInputs :
    InitCall("nextLikeFrameworkStrategy.detect", <<hasSlice, stack, pathname>>)

NextRoute == CallNextLikeDetect

SpecRoute == InitRoute /\ [][NextRoute]_vars

\* The pattern segment a pathname segment at idx is to become, by the rule
\* read with "lowercase" alone and with "longer than two characters and
\* lowercase".
IdPlaceholder(idx) == Text("[id") \o NumberToString(idx) \o Text("]")
ParamPlaceholder(idx) == Text("[param") \o NumberToString(idx) \o Text("]")
IsLowercase(seg) == \A i \in 1..Len(seg) : ~(charCodeAt(seg[i]) >= 65 /\ charCodeAt(seg[i]) <= 90)

\* The detection answered a Next route guess for the pathname, and what the
\* pattern and the params have to be when a segment is kept literal exactly
\* if KeepsLiteral[i] holds.
RouteGuessed ==
  /\ Called("nextLikeFrameworkStrategy.detect")
  /\ ~callOutput[1].isNull
  /\ callOutput[1].framework \in {"next-app", "next-pages"}
RouteGuessIs(keepsLiteral) ==
  LET out == callOutput[1]
      segments == PathSegments(callInput.args[3])
      got == PathSegments(out.routePatternGuess.chars)
      replaced == {i \in 1..Len(segments) : IsDigits(segments[i]) \/ ~keepsLiteral[i]}
      keyOf(i) == SubSeq(got[i], 2, Len(got[i]) - 1)
  IN /\ out.routePatternGuess.exists
     /\ Len(got) = Len(segments)
     /\ \A i \in 1..Len(segments) :
          got[i] = IF IsDigits(segments[i]) THEN IdPlaceholder(i - 1)
                   ELSE IF keepsLiteral[i] THEN segments[i]
                   ELSE ParamPlaceholder(i - 1)
     /\ out.routeParamsGuess.exists <=> replaced # {}
     /\ Len(out.routeParamsGuess.entries) = Cardinality(replaced)
     /\ \A i \in replaced :
          \E e \in 1..Len(out.routeParamsGuess.entries) :
            /\ out.routeParamsGuess.entries[e].key = keyOf(i)
            /\ out.routeParamsGuess.entries[e].value = segments[i]

\* C25 as stated: under a next-app or next-pages framework a numeric segment
\* becomes [id<i>], a lowercase segment is kept literal whatever its length
\* (a 2-character one included), any other becomes [param<i>]; the params are
\* exactly the replaced segments, keyed by placeholder name, null when none.
C25_LowercaseKeptLiteral ==
  RouteGuessed =>
    LET segments == PathSegments(callInput.args[3])
    IN RouteGuessIs([i \in 1..Len(segments) |-> IsLowercase(segments[i])])

\* C25 (amended): under a next-app or next-pages framework a numeric segment
\* becomes [id<i>], a segment longer than two characters that equals its
\* lowercased form is kept literal, any other (a 2-character lowercase one
\* included) becomes [param<i>]; the params are exactly the replaced
\* segments, keyed by placeholder name, null when none.
C25_LongLowercaseKeptLiteral ==
  RouteGuessed =>
    LET segments == PathSegments(callInput.args[3])
    IN RouteGuessIs([i \in 1..Len(segments) |->
                       Len(segments[i]) > 2 /\ IsLowercase(segments[i])])

\* /en/users/42 under a Next app route: [param0], users, [id2].
C25_Witness ==
  /\ RouteGuessed
  /\ callOutput[1].framework = "next-app"
  /\ PathSegments(callInput.args[3]) = <<Text("en"), Text("users"), Text("42")>>
  /\ callOutput[1].routePatternGuess.chars
       = Text("/") \o ParamPlaceholder(0) \o Text("/users/") \o IdPlaceholder(2)
  /\ Len(callOutput[1].routeParamsGuess.entries) = 2

(* ------------------------------------------------------------------ *)
(* One finalization at a time, and the instruction of a session        *)
(* ------------------------------------------------------------------ *)

\* C26 (as stated): at most one finalization is in progress at any time;
\* from the moment finalize begins until it has ended no user action, the
\* global shortcut included, starts a selection that is then finalized.
C26_OneFinalizationAtATime == Len(fins) <= 1

\* Instructions: the container-and-child page, where every selection is
\* started with the global shortcut (so without an instruction), made by
\* clicking and finalized with Enter, the shortcut is left alone while the
\* overlay is sending, and startSelectionSession("a") is called only while a
\* finalization is capturing.
Capturing == \E f \in 1..Len(fins) : fins[f].pc = "capturing"

NextInstruction ==
  \/ Capturing /\ StartSelectionSession(Str(<<"a">>))
  \/ ~sending /\ GlobalToggle
  \/ \E t \in MouseTargets, m \in BOOLEAN : Click(t, 0, m)
  \/ KeyEnter
  \/ \E f \in FinSlots, w \in 1..CaptureConcurrency, ok \in BOOLEAN : CaptureSettles(f, w, ok)
  \/ \E f \in FinSlots, r \in BOOLEAN : SendSettles(f, r, FALSE, FALSE)

SpecInstruction == InitOverlap /\ [][NextInstruction]_vars

\* C27 (as stated), where every selection is begun without an instruction:
\* the userInstruction of every constructed session is null, neither changed
\* by a startSelectionSession call made while its finalization is capturing
\* nor inherited from an earlier session.
C27_InstructionOfItsSelection ==
  \A fin \in RunningFins \cup EndedFins :
    fin.session.exists => fin.session.userInstruction = NullInstruction

(* ------------------------------------------------------------------ *)
(* Hooks, the provider registry and dispose                            *)
(* ------------------------------------------------------------------ *)

\* The terminal progress events a finalization passed to onProgress.
TerminalEvents(fin) == {i \in 1..Len(fin.log) : fin.log[i].phase \in {"done", "error"}}

\* C28 (as stated): a finalization that reached sending has, when it ends,
\* emitted exactly one terminal progress event and, when the active provider
\* has hooks, invoked exactly one of onSuccess and onError, once, also when
\* a hook throws.
C28_OneHookOneTerminal ==
  (report.kind = "ended" /\ report.fin.session.exists)
  => /\ Cardinality(TerminalEvents(report.fin)) = 1
     /\ HasHooks(activeProvider) =>
          Len(report.fin.onSuccessCalls) + Len(report.fin.onErrorCalls) = 1

\* C29 (as stated): the active provider is the provider object registered
\* under its id.
C29_ActiveIsRegistered == providerRegistry[ProviderId(activeProvider)] = activeProvider

\* C30 (as stated): once the client is disposed of, no step moves the
\* overlay into selecting, attaches the selection listeners or starts a
\* finalization.
C30_InertAfterDispose ==
  [][~overlay
     => /\ selecting' => selecting
        /\ listening' => listening
        /\ Len(fins') <= Len(fins)]_vars
====
